---- MODULE Spec2Model ----
(***************************************************************************)
(* State-machine model of scrap-rs: the SQLite note storage (db.rs), the   *)
(* one-shot commands (commands/*.rs) and the interactive session           *)
(* (tui/mod.rs, tui/events.rs).                                            *)
(*                                                                         *)
(* A Rust String is modelled as a sequence of one-character strings, so    *)
(* that trimming, splitting, lower-casing and substring search are         *)
(* computed, not assumed.                                                  *)
(***************************************************************************)
EXTENDS Integers, Sequences, FiniteSets, TLC

\* ------------------------------------------------------------------------
\* Bounds of the model (not program constants)
\* ------------------------------------------------------------------------
MaxNotes == 2
MaxScroll == 1
MaxTime == 1
MaxDelta == 3
MaxBody == 2

\* ------------------------------------------------------------------------
\* Program constants
\* ------------------------------------------------------------------------
MaxNameLen == 100
MaxTagLen == 50
\* Duration::from_secs(3): how long the "No summary available" message is shown
StatusSeconds == 3

\* Option<String> fields and NULL columns hold None or the string;
\* an Option of a record is the empty sequence or a one-element sequence
None == "None"
Nothing == <<>>
Some(x) == <<x>>
Unwrap(o) == o[1]

\* ------------------------------------------------------------------------
\* Strings
\* ------------------------------------------------------------------------

\* char::is_whitespace, on the characters the model types
IsSpace(c) == c \in {" ", "\t", "\n"}

\* Code point of a character: the order String::cmp compares by
Code(c) ==
  CASE c = " " -> 32
    [] c = "+" -> 43
    [] c = "." -> 46
    [] c = "/" -> 47
    [] c \in {"0", "1", "2", "3", "4", "5", "6", "7", "8", "9"} ->
         48 + (CHOOSE n \in 0..9 : <<"0", "1", "2", "3", "4", "5", "6", "7", "8", "9">>[n + 1] = c)
    [] c = "A" -> 65
    [] c = "B" -> 66
    [] c = "W" -> 87
    [] c = "\\" -> 92
    [] c = "a" -> 97
    [] c = "b" -> 98
    [] c = "c" -> 99
    [] c = "d" -> 100
    [] c = "e" -> 101
    [] c = "h" -> 104
    [] c = "l" -> 108
    [] c = "p" -> 112
    [] c = "t" -> 116
    [] c = "w" -> 119
    [] c = "x" -> 120
    [] c = "y" -> 121

\* char lower-casing
LowerChar(c) ==
  CASE c = "A" -> "a"
    [] c = "B" -> "b"
    [] c = "W" -> "w"
    [] OTHER -> c

\* str::to_lowercase
to_lowercase(s) == [i \in 1..Len(s) |-> LowerChar(s[i])]

\* str::contains(&str): substring search
contains(hay, needle) ==
  \E i \in 0..(Len(hay) - Len(needle)) :
    SubSeq(hay, i + 1, i + Len(needle)) = needle

\* str::contains(char)
contains_char(s, c) == \E i \in 1..Len(s) : s[i] = c

\* str::trim: strips leading and trailing whitespace
RECURSIVE trim_start(_)
trim_start(s) ==
  IF s # <<>> /\ IsSpace(Head(s)) THEN trim_start(Tail(s)) ELSE s

RECURSIVE trim_end(_)
trim_end(s) ==
  IF s # <<>> /\ IsSpace(s[Len(s)])
     THEN trim_end(SubSeq(s, 1, Len(s) - 1))
     ELSE s

trim(s) == trim_end(trim_start(s))

\* str::split_whitespace: the maximal runs of non-whitespace, in order
RECURSIVE SplitFrom(_, _, _)
SplitFrom(s, cur, acc) ==
  IF s = <<>>
     THEN IF cur = <<>> THEN acc ELSE Append(acc, cur)
     ELSE IF IsSpace(Head(s))
             THEN SplitFrom(Tail(s), <<>>, IF cur = <<>> THEN acc ELSE Append(acc, cur))
             ELSE SplitFrom(Tail(s), Append(cur, Head(s)), acc)

split_whitespace(s) == SplitFrom(s, <<>>, <<>>)

\* str::split(char): one piece more than there are separators
split(s, sep) ==
  LET RECURSIVE Go(_, _)
      Go(rest, cur) ==
        IF rest = <<>> THEN <<cur>>
        ELSE IF Head(rest) = sep THEN <<cur>> \o Go(Tail(rest), <<>>)
        ELSE Go(Tail(rest), Append(cur, Head(rest)))
  IN Go(s, <<>>)

\* String::cmp: lexicographic by code point, a proper prefix first
RECURSIVE StrLess(_, _)
StrLess(a, b) ==
  IF b = <<>> THEN FALSE
  ELSE IF a = <<>> THEN TRUE
  ELSE IF Code(Head(a)) # Code(Head(b)) THEN Code(Head(a)) < Code(Head(b))
  ELSE StrLess(Tail(a), Tail(b))

\* Vec::contains
InSeq(x, s) == \E i \in 1..Len(s) : s[i] = x

\* Vec::retain(|t| !removed.contains(t))
RECURSIVE retain_not_in(_, _)
retain_not_in(s, removed) ==
  IF s = <<>> THEN <<>>
  ELSE IF InSeq(Head(s), removed) THEN retain_not_in(Tail(s), removed)
  ELSE <<Head(s)>> \o retain_not_in(Tail(s), removed)

\* ------------------------------------------------------------------------
\* utils.rs
\* ------------------------------------------------------------------------

\* validate_name: "ok" or the error it bails with
validate_name(name) ==
  LET trimmed == trim(name) IN
  IF trimmed = <<>> THEN "NameEmpty"
  ELSE IF contains_char(trimmed, "/") \/ contains_char(trimmed, "\\") THEN "NamePathSeparator"
  ELSE IF Len(trimmed) > MaxNameLen THEN "NameTooLong"
  ELSE "ok"

\* one iteration of validate_tags
validate_tag(tag) ==
  LET trimmed == trim(tag) IN
  IF trimmed = <<>> THEN "TagEmpty"
  ELSE IF contains_char(trimmed, " ") THEN "TagSpaces"
  ELSE IF Len(trimmed) > MaxTagLen THEN "TagTooLong"
  ELSE "ok"

\* validate_tags: the first error in order, else "ok"
RECURSIVE validate_tags(_)
validate_tags(tags) ==
  IF tags = <<>> THEN "ok"
  ELSE IF validate_tag(Head(tags)) # "ok" THEN validate_tag(Head(tags))
  ELSE validate_tags(Tail(tags))

\* ------------------------------------------------------------------------
\* State
\* ------------------------------------------------------------------------
VARIABLES
  profile,             \* the classes of input this run's user gives (never changes)
  db,                  \* table notes: rows in rowid order
  now,                 \* CURRENT_TIMESTAMP, in seconds
  phase,               \* "shell": no session runs; "tui": tui::run is in run_loop;
                       \* "editor": a key handler waits for the editor it started
  raw_mode,            \* the terminal is in raw mode on the alternate screen
  notes,               \* App.notes
  filtered_notes,      \* App.filtered_notes (0-based indices into notes)
  selected,            \* App.selected
  mode,                \* App.mode
  search_query,        \* App.search_query
  input_buffer,        \* App.input_buffer
  tags_buffer,         \* App.tags_buffer
  status_message,      \* App.status_message: None or the kind of message
  should_quit,         \* App.should_quit
  focus,               \* App.focus
  all_tags,            \* App.all_tags
  visible_tags,        \* App.visible_tags
  selected_tag,        \* App.selected_tag
  active_tag_filters,  \* App.active_tag_filters
  showing_summary,     \* App.showing_summary
  summary_content,     \* App.summary_content
  summary_stale,       \* App.summary_stale
  summary_force_regen, \* App.summary_force_regen
  preview_tab,         \* App.preview_tab
  preview_scroll,      \* App.preview_scroll
  tag_suggestions,     \* App.tag_suggestions
  selected_suggestion, \* App.selected_suggestion
  status_expires,      \* App.status_expires: Nothing, or Some of the seconds left
                       \* on the monotonic clock until the Instant is reached
  version_cache,       \* ~/.scrap/version_cache.json: Nothing, or Some VersionCache, whose
                       \* checked_at is kept as `fresh`: now - checked_at < CACHE_DURATION_SECS
  call                 \* the last call of a function checked on its own: its arguments
                       \* and result

dbVars == <<db, now>>
filterVars == <<notes, filtered_notes, selected, all_tags, visible_tags, selected_tag>>
summaryVars == <<showing_summary, summary_content, summary_stale, summary_force_regen>>
bufferVars == <<input_buffer, tags_buffer>>
suggestVars == <<tag_suggestions, selected_suggestion>>
vars == <<profile, db, now, phase, raw_mode, notes, filtered_notes, selected, mode, search_query,
          input_buffer, tags_buffer, status_message, should_quit, focus, all_tags,
          visible_tags, selected_tag, active_tag_filters, showing_summary,
          summary_content, summary_stale, summary_force_regen, preview_tab,
          preview_scroll, tag_suggestions, selected_suggestion, status_expires,
          version_cache, call>>

\* ------------------------------------------------------------------------
\* db.rs
\* ------------------------------------------------------------------------

\* INSERT INTO notes (title, note, tags): id AUTOINCREMENT, summary NULL,
\* summary_stale DEFAULT 0, updated_at DEFAULT CURRENT_TIMESTAMP
insert_note(d, t, name, contents, tags) ==
  Append(d, [id |-> Len(d) + 1, title |-> name, note |-> contents, tags |-> tags,
             summary |-> None, summary_stale |-> FALSE, updated_at |-> t])

\* SELECT ... WHERE title = ?1, rows.next(): position of the first row with the
\* title, 0 when there is none
get_note(d, name) ==
  IF \E i \in 1..Len(d) : d[i].title = name
     THEN CHOOSE i \in 1..Len(d) :
            d[i].title = name /\ \A j \in 1..(i - 1) : d[j].title # name
     ELSE 0

\* get_tags_and_id reads the same row as get_note
get_tags_and_id(d, name) == get_note(d, name)

\* UPDATE notes SET note = ?1 WHERE id = ?2; the trigger
\* update_notes_updated_at then sets updated_at = CURRENT_TIMESTAMP
update_note(d, t, id, contents) ==
  [i \in 1..Len(d) |->
     IF d[i].id = id THEN [d[i] EXCEPT !.note = contents, !.updated_at = t] ELSE d[i]]

\* UPDATE notes SET tags = ?1 WHERE id = ?2 (+ trigger)
update_tags(d, t, id, tags) ==
  [i \in 1..Len(d) |->
     IF d[i].id = id THEN [d[i] EXCEPT !.tags = tags, !.updated_at = t] ELSE d[i]]

\* SELECT summary, summary_stale WHERE id: Nothing when the row is missing or the
\* summary is NULL or empty
get_summary(d, id) ==
  IF \E i \in 1..Len(d) : d[i].id = id /\ d[i].summary # None
     THEN LET r == d[CHOOSE i \in 1..Len(d) : d[i].id = id]
          IN Some([text |-> r.summary, stale |-> r.summary_stale])
     ELSE Nothing

\* UPDATE notes SET summary = ?1, summary_stale = 0 WHERE id = ?2 (+ trigger)
set_summary(d, t, id, summary) ==
  [i \in 1..Len(d) |->
     IF d[i].id = id
        THEN [d[i] EXCEPT !.summary = summary, !.summary_stale = FALSE, !.updated_at = t]
        ELSE d[i]]

\* UPDATE notes SET summary_stale = 1 WHERE id = ?1 (+ trigger)
mark_summary_stale(d, t, id) ==
  [i \in 1..Len(d) |->
     IF d[i].id = id THEN [d[i] EXCEPT !.summary_stale = TRUE, !.updated_at = t] ELSE d[i]]

\* NoteEntry built from a row
NoteEntry(r) ==
  [id |-> r.id, title |-> r.title, note |-> r.note, tags |-> r.tags,
   updated_at |-> r.updated_at]

\* list_notes: SELECT ... ORDER BY updated_at DESC. Rows with equal updated_at
\* come in an order SQL leaves open: every order consistent with the sort key
\* is a possible result.
list_notes(d) ==
  LET n == Len(d)
      Orders == {p \in [1..n -> 1..n] :
                   /\ \A i, j \in 1..n : i # j => p[i] # p[j]
                   /\ \A i, j \in 1..n :
                        i < j => d[p[i]].updated_at >= d[p[j]].updated_at}
  IN {[i \in 1..n |-> NoteEntry(d[p[i]])] : p \in Orders}

\* ------------------------------------------------------------------------
\* tui/mod.rs
\* ------------------------------------------------------------------------

RECURSIVE CountOf(_, _)
\* occurrences of a tag in one tag list
CountOf(tags, name) ==
  IF tags = <<>> THEN 0
  ELSE (IF Head(tags) = name THEN 1 ELSE 0) + CountOf(Tail(tags), name)

RECURSIVE TagTotal(_, _)
\* the HashMap entry of compute_tags: += 1 for every occurrence in every note
TagTotal(ns, name) ==
  IF ns = <<>> THEN 0
  ELSE CountOf(Head(ns).tags, name) + TagTotal(Tail(ns), name)

\* the comparator of tags.sort_by: count descending, then name ascending
TagBefore(a, b) ==
  \/ a.count > b.count
  \/ a.count = b.count /\ StrLess(a.name, b.name)

RECURSIVE SortTags(_)
SortTags(S) ==
  IF S = {} THEN <<>>
  ELSE LET first == CHOOSE a \in S : \A b \in S \ {a} : TagBefore(a, b)
       IN <<first>> \o SortTags(S \ {first})

\* compute_tags: tag name -> number of occurrences, sorted
compute_tags(ns) ==
  LET names == UNION {{ns[i].tags[k] : k \in 1..Len(ns[i].tags)} : i \in 1..Len(ns)}
  IN SortTags({[name |-> nm, count |-> TagTotal(ns, nm)] : nm \in names})

\* compute_tags_from_refs: the same computation over borrowed notes
compute_tags_from_refs(ns) == compute_tags(ns)

\* note_matches with the tag filter demanding every active tag, not any
note_matches_every_tag(note, query, active) ==
  /\ \A k \in 1..Len(active) : InSeq(active[k], note.tags)
  /\ \/ query = <<>>
     \/ contains(to_lowercase(note.title), query)
     \/ contains(to_lowercase(note.note), query)
     \/ \E k \in 1..Len(note.tags) : contains(to_lowercase(note.tags[k]), query)

\* the closure of apply_filter's .filter()
note_matches(note, query, active) ==
  /\ active # <<>> => \E k \in 1..Len(note.tags) : InSeq(note.tags[k], active)
  /\ \/ query = <<>>
     \/ contains(to_lowercase(note.title), query)
     \/ contains(to_lowercase(note.note), query)
     \/ \E k \in 1..Len(note.tags) : contains(to_lowercase(note.tags[k]), query)

RECURSIVE FilterFrom(_, _, _, _)
\* enumerate().filter().map(|(i, _)| i).collect(), from index i on
FilterFrom(ns, i, query, active) ==
  IF i >= Len(ns) THEN <<>>
  ELSE (IF note_matches(ns[i + 1], query, active) THEN <<i>> ELSE <<>>)
         \o FilterFrom(ns, i + 1, query, active)

\* apply_filter with the facets computed from the whole snapshot
apply_filter_facets_of_snapshot(ns, sq, active, sel, seltag) ==
  LET query == to_lowercase(sq)
      filtered == FilterFrom(ns, 0, query, active)
      visible == compute_tags(ns)
  IN [filtered_notes |-> filtered,
      selected |-> IF sel >= Len(filtered) THEN 0 ELSE sel,
      visible_tags |-> visible,
      selected_tag |-> IF seltag >= Len(visible) /\ visible # <<>> THEN Len(visible) - 1
                       ELSE IF visible = <<>> THEN 0
                       ELSE seltag]

\* App::apply_filter: the new filtered_notes, selected, visible_tags, selected_tag
apply_filter(ns, sq, active, sel, seltag) ==
  LET query == to_lowercase(sq)
      filtered == FilterFrom(ns, 0, query, active)
      visible == compute_tags_from_refs([k \in 1..Len(filtered) |-> ns[filtered[k] + 1]])
  IN [filtered_notes |-> filtered,
      selected |-> IF sel >= Len(filtered) THEN 0 ELSE sel,
      visible_tags |-> visible,
      selected_tag |-> IF seltag >= Len(visible) /\ visible # <<>> THEN Len(visible) - 1
                       ELSE IF visible = <<>> THEN 0
                       ELSE seltag]

\* refresh_notes that keeps the all_tags it had
refresh_notes_keeps_all_tags(listing, sq, active, sel, seltag) ==
  LET f == apply_filter(listing, sq, active, sel, seltag)
  IN [notes |-> listing,
      all_tags |-> all_tags,
      filtered_notes |-> f.filtered_notes,
      selected |-> f.selected,
      visible_tags |-> f.visible_tags,
      selected_tag |-> f.selected_tag]

\* App::refresh_notes, given the result of list_notes
refresh_notes(listing, sq, active, sel, seltag) ==
  LET tags == compute_tags(listing)
      f == apply_filter(listing, sq, active, sel, seltag)
  IN [notes |-> listing,
      all_tags |-> tags,
      filtered_notes |-> f.filtered_notes,
      selected |-> f.selected,
      visible_tags |-> f.visible_tags,
      selected_tag |-> IF f.selected_tag >= Len(tags) /\ tags # <<>>
                          THEN Len(tags) - 1 ELSE f.selected_tag]

\* i32 rem_euclid
rem_euclid(a, n) == a % n

\* move_selection without the wrap-around
move_selection_no_wrap(sel, len, delta) ==
  IF len = 0 THEN sel ELSE sel + delta

\* App::move_selection: the new selected
move_selection(sel, len, delta) ==
  IF len = 0 THEN sel ELSE rem_euclid(sel + delta, len)

\* App::move_tag_selection: the new selected_tag
move_tag_selection(seltag, len, delta) ==
  IF len = 0 THEN seltag ELSE rem_euclid(seltag + delta, len)

\* App::selected_note: filtered_notes.get(selected).and_then(|&idx| notes.get(idx))
selected_note(ns, filtered, sel) ==
  IF sel < Len(filtered) /\ filtered[sel + 1] < Len(ns)
     THEN Some(ns[filtered[sel + 1] + 1])
     ELSE Nothing

\* App::update_tag_suggestions(input): the new tag_suggestions and
\* selected_suggestion. current_word is input.split_whitespace().last();
\* entered_set holds every token but the last
update_tag_suggestions(tags, input, sel) ==
  LET words == split_whitespace(input)
      current_word == IF words = <<>> THEN <<>> ELSE words[Len(words)]
      current_lower == to_lowercase(current_word)
      entered_set == IF words = <<>> THEN <<>> ELSE SubSeq(words, 1, Len(words) - 1)
      starts_with(str, pat) == Len(pat) <= Len(str) /\ SubSeq(str, 1, Len(pat)) = pat
      Matches(t) == /\ starts_with(to_lowercase(t.name), current_lower)
                    /\ ~InSeq(t.name, entered_set)
      found == SelectSeq(tags, Matches)
      taken == SubSeq(found, 1, IF Len(found) < 5 THEN Len(found) ELSE 5)
      names == [k \in 1..Len(taken) |-> taken[k].name]
  IN IF current_word = <<>>
        THEN [tag_suggestions |-> <<>>, selected_suggestion |-> 0]
        ELSE [tag_suggestions |-> names,
              selected_suggestion |-> IF sel >= Len(names) THEN 0 ELSE sel]

\* App::accept_tag_suggestion(buffer): the new buffer, tag_suggestions and
\* selected_suggestion; nothing changes when there is no suggestion at the cursor
accept_tag_suggestion(suggestions, sel, buffer) ==
  LET words == split_whitespace(buffer)
      RECURSIVE JoinSpace(_)
      JoinSpace(ws) == IF ws = <<>> THEN <<>>
                       ELSE IF Len(ws) = 1 THEN ws[1]
                       ELSE ws[1] \o <<" ">> \o JoinSpace(Tail(ws))
      prefix == IF Len(words) > 1
                   THEN JoinSpace(SubSeq(words, 1, Len(words) - 1)) \o <<" ">>
                   ELSE <<>>
  IN IF sel < Len(suggestions)
        THEN [buffer |-> prefix \o suggestions[sel + 1] \o <<" ">>,
              tag_suggestions |-> <<>>,
              selected_suggestion |-> 0]
        ELSE [buffer |-> buffer,
              tag_suggestions |-> suggestions,
              selected_suggestion |-> sel]

\* App::move_suggestion_selection: the new selected_suggestion
move_suggestion_selection(sel, len, delta) ==
  IF len = 0 THEN sel ELSE rem_euclid(sel + delta, len)

\* ------------------------------------------------------------------------
\* tui/markdown.rs
\* ------------------------------------------------------------------------

\* const COL_WIDTH
COL_WIDTH == 14

\* One pass of render_markdown's `for event in parser` loop: the locals lines,
\* current_spans, style_stack, in_code_block, pending_list_marker, link_url,
\* in_table, table_row_cells, current_cell and table_col_count after the
\* event e. A line is a sequence of spans, a span a text with its colour and
\* modifiers; Line::from("") is the line without spans. The box-drawing
\* characters, the bullet, the check boxes and the backtick are written by
\* their names.
RenderEvent(st, e) ==
  LET default == [fg |-> None, mods |-> {}]
      base == IF st.style_stack = <<>> THEN default
              ELSE st.style_stack[Len(st.style_stack)]
      Span(content, fg, mods) == [content |-> content, fg |-> fg, mods |-> mods]
      Push(style) == [st EXCEPT !.style_stack = Append(@, style)]
      Pop(s) == [s EXCEPT !.style_stack = IF @ = <<>> THEN @ ELSE SubSeq(@, 1, Len(@) - 1)]
      Flush(s) == IF s.current_spans # <<>>
                     THEN [s EXCEPT !.lines = Append(@, s.current_spans),
                                    !.current_spans = <<>>]
                     ELSE s
      Blank(s) == [s EXCEPT !.lines = Append(@, <<>>)]
      \* format!("{:^width$}", cell, width = COL_WIDTH)
      Padded(cell) ==
        LET pad == IF Len(cell) >= COL_WIDTH THEN 0 ELSE COL_WIDTH - Len(cell)
            left == pad \div 2
        IN [i \in 1..left |-> " "] \o cell \o [i \in 1..(pad - left) |-> " "]
      \* a border over n columns: left corner, COL_WIDTH rules per column with a
      \* joint between two columns, right corner
      Border(left, joint, right, n) ==
        <<left>>
          \o [j \in 1..(n * (COL_WIDTH + 1) - 1) |->
                IF j % (COL_WIDTH + 1) = 0 THEN joint ELSE "box_h"]
          \o <<right>>
      BorderLine(left, joint, right, n) ==
        << Span(Border(left, joint, right, n), "DarkGray", {}) >>
      \* a row: the vertical rule, then every padded cell followed by the rule
      RowLine(cells, fg, mods) ==
        [i \in 1..(2 * Len(cells) + 1) |->
           IF i % 2 = 1 THEN Span(<<"box_v">>, "DarkGray", {})
           ELSE Span(Padded(cells[i \div 2]), fg, mods)]
      \* the loop over text.split('\n') in a code block
      RECURSIVE CodeLines(_, _)
      CodeLines(s, pieces) ==
        IF pieces = <<>> THEN s
        ELSE CodeLines([Flush(s) EXCEPT !.current_spans =
                          Append(@, Span(<<" ", " ", " ", " ">> \o Head(pieces), "Gray", {}))],
                       Tail(pieces))
      marked == IF st.pending_list_marker
                   THEN [st EXCEPT !.pending_list_marker = FALSE,
                                   !.current_spans =
                                     Append(@, Span(<<" ", " ", "bullet", " ">>, "Cyan", {}))]
                   ELSE st
  IN CASE e.ev = "Start" ->
            (CASE e.tag = "Heading" ->
                    Push([fg |-> IF e.level = 1 THEN "Cyan"
                                 ELSE IF e.level = 2 THEN "Green" ELSE "Yellow",
                          mods |-> {"BOLD"}])
               [] e.tag = "Strong" -> Push([base EXCEPT !.mods = @ \cup {"BOLD"}])
               [] e.tag = "Emphasis" -> Push([base EXCEPT !.mods = @ \cup {"ITALIC"}])
               [] e.tag = "CodeBlock" -> [st EXCEPT !.in_code_block = TRUE]
               [] e.tag = "Item" -> [st EXCEPT !.pending_list_marker = TRUE]
               [] e.tag = "Link" ->
                    [Push([fg |-> "Blue", mods |-> base.mods \cup {"UNDERLINED"}])
                       EXCEPT !.link_url = Some(e.dest_url)]
               [] e.tag = "Strikethrough" ->
                    Push([base EXCEPT !.mods = @ \cup {"CROSSED_OUT"}])
               [] e.tag = "Table" -> [st EXCEPT !.in_table = TRUE]
               [] e.tag = "TableRow" -> [st EXCEPT !.table_row_cells = <<>>]
               [] e.tag = "TableCell" -> [st EXCEPT !.current_cell = <<>>]
               [] OTHER -> st)
       [] e.ev = "End" ->
            (CASE e.tag = "Heading" -> Blank(Flush(Pop(st)))
               [] e.tag = "Paragraph" -> Blank(Flush(st))
               [] e.tag = "Item" -> Flush([st EXCEPT !.pending_list_marker = FALSE])
               [] e.tag = "CodeBlock" -> Blank(Flush([st EXCEPT !.in_code_block = FALSE]))
               [] e.tag \in {"Strong", "Emphasis", "Strikethrough"} -> Pop(st)
               [] e.tag = "Link" ->
                    IF st.link_url # Nothing
                       THEN [Pop(st) EXCEPT
                               !.current_spans =
                                  Append(@, Span(<<" ", "(">> \o Unwrap(st.link_url) \o <<")">>,
                                                 "DarkGray", {})),
                               !.link_url = Nothing]
                       ELSE Pop(st)
               [] e.tag = "TableHead" ->
                    IF st.table_row_cells # <<>>
                       THEN LET n == Len(st.table_row_cells) IN
                            [st EXCEPT
                               !.table_col_count = n,
                               !.lines = @ \o << BorderLine("box_dr", "box_dh", "box_dl", n),
                                                 RowLine(st.table_row_cells, "Cyan", {"BOLD"}),
                                                 BorderLine("box_vr", "box_vh", "box_vl", n) >>,
                               !.table_row_cells = <<>>]
                       ELSE st
               [] e.tag = "TableRow" ->
                    IF st.table_row_cells # <<>>
                       THEN [st EXCEPT
                               !.lines = Append(@, RowLine(st.table_row_cells, None, {})),
                               !.table_row_cells = <<>>]
                       ELSE st
               [] e.tag = "TableCell" ->
                    [st EXCEPT !.table_row_cells = Append(@, st.current_cell),
                               !.current_cell = <<>>]
               [] e.tag = "Table" ->
                    Blank([st EXCEPT
                             !.lines = IF st.table_col_count > 0
                                          THEN Append(@, BorderLine("box_ur", "box_uh", "box_ul",
                                                                    st.table_col_count))
                                          ELSE @,
                             !.in_table = FALSE,
                             !.table_col_count = 0])
               [] OTHER -> st)
       [] e.ev = "Text" ->
            IF marked.in_table
               THEN [marked EXCEPT !.current_cell = @ \o e.text]
            ELSE IF marked.in_code_block
               THEN CodeLines(marked, split(e.text, "\n"))
            ELSE [marked EXCEPT !.current_spans = Append(@, Span(e.text, base.fg, base.mods))]
       [] e.ev = "Code" ->
            [st EXCEPT !.current_spans =
                         Append(@, Span(<<"backtick">> \o e.text \o <<"backtick">>, "Magenta", {}))]
       [] e.ev \in {"SoftBreak", "HardBreak"} -> Flush(st)
       [] e.ev = "TaskListMarker" ->
            [st EXCEPT !.pending_list_marker = FALSE,
                       !.current_spans =
                         Append(@, IF e.checked
                                      THEN Span(<<" ", " ", "ballot_checked", " ">>, "Green", {})
                                      ELSE Span(<<" ", " ", "ballot_box", " ">>, "Yellow", {}))]
       [] OTHER -> st

\* render_markdown without the early return for an input that is blank
render_markdown_always_parses(input) ==
  LET RECURSIVE Loop(_, _)
      Loop(st, events) ==
        IF events = <<>> THEN st ELSE Loop(RenderEvent(st, Head(events)), Tail(events))
      start == [lines |-> <<>>, current_spans |-> <<>>,
                style_stack |-> << [fg |-> None, mods |-> {}] >>,
                in_code_block |-> FALSE, pending_list_marker |-> FALSE,
                link_url |-> Nothing, in_table |-> FALSE, table_row_cells |-> <<>>,
                current_cell |-> <<>>, table_col_count |-> 0]
      end == Loop(start, input.events)
      lines == IF end.current_spans # <<>> THEN Append(end.lines, end.current_spans)
               ELSE end.lines
  IN IF lines = <<>> THEN << <<>> >> ELSE lines

\* render_markdown(input): the lines. input.text is the string and
\* input.events the events Parser::new_ext(input, options) yields for it
render_markdown(input) ==
  LET RECURSIVE Loop(_, _)
      Loop(st, events) ==
        IF events = <<>> THEN st ELSE Loop(RenderEvent(st, Head(events)), Tail(events))
      start == [lines |-> <<>>, current_spans |-> <<>>,
                style_stack |-> << [fg |-> None, mods |-> {}] >>,
                in_code_block |-> FALSE, pending_list_marker |-> FALSE,
                link_url |-> Nothing, in_table |-> FALSE, table_row_cells |-> <<>>,
                current_cell |-> <<>>, table_col_count |-> 0]
      end == Loop(start, input.events)
      lines == IF end.current_spans # <<>> THEN Append(end.lines, end.current_spans)
               ELSE end.lines
  IN IF trim(input.text) = <<>>
        THEN << << [content |-> <<"(", "e", "m", "p", "t", "y", " ", "n", "o", "t", "e", ")">>,
                    fg |-> "DarkGray", mods |-> {}] >> >>
     ELSE IF lines = <<>> THEN << <<>> >> ELSE lines

\* ------------------------------------------------------------------------
\* version_check.rs
\* ------------------------------------------------------------------------

\* CARGO_PKG_VERSION of the running binary
CURRENT_VERSION == <<"0", ".", "1", ".", "0">>

\* version_is_newer. A component is kept as its digits without leading zeros
\* (so that values up to u32::MAX and beyond can be told apart); p.parse::<u32>()
\* fails on an empty component, on a character that is not a digit (one
\* leading "+" is accepted) and on a value above u32::MAX = 4294967295, and
\* filter_map drops the component then.
version_is_newer(latest, current) ==
  LET Digits == {"0", "1", "2", "3", "4", "5", "6", "7", "8", "9"}
      u32_MAX == <<"4", "2", "9", "4", "9", "6", "7", "2", "9", "5">>
      RECURSIVE Canon(_)
      Canon(ds) == IF Len(ds) > 1 /\ Head(ds) = "0" THEN Canon(Tail(ds)) ELSE ds
      Less(a, b) == Len(a) < Len(b) \/ (Len(a) = Len(b) /\ StrLess(a, b))
      Unsigned(p) == IF p # <<>> /\ Head(p) = "+" THEN Tail(p) ELSE p
      Parses(p) == /\ Unsigned(p) # <<>>
                   /\ \A i \in 1..Len(Unsigned(p)) : Unsigned(p)[i] \in Digits
                   /\ ~Less(u32_MAX, Canon(Unsigned(p)))
      parse(v) == LET kept == SelectSeq(split(v, "."), Parses)
                  IN [i \in 1..Len(kept) |-> Canon(Unsigned(kept[i]))]
      latest_parts == parse(latest)
      current_parts == parse(current)
      n == IF Len(latest_parts) > Len(current_parts)
              THEN Len(latest_parts) ELSE Len(current_parts)
      l(i) == IF i <= Len(latest_parts) THEN latest_parts[i] ELSE <<"0">>
      c(i) == IF i <= Len(current_parts) THEN current_parts[i] ELSE <<"0">>
      RECURSIVE Loop(_)
      Loop(i) == IF i > n THEN FALSE
                 ELSE IF Less(c(i), l(i)) THEN TRUE
                 ELSE IF Less(l(i), c(i)) THEN FALSE
                 ELSE Loop(i + 1)
  IN Loop(1)

\* ------------------------------------------------------------------------
\* Inputs
\* ------------------------------------------------------------------------

\* The texts the user types, key by key, into the name prompt, the tag prompt
\* of add-note, the tag prompt of edit-tags and the search box. A prompt holds
\* a prefix of one of its texts: the user may stop anywhere, press Enter on an
\* unfinished text and take characters back with Backspace. A user of class
\* "long" types texts that reach the length limits.
Repeat(c, n) == [i \in 1..n |-> c]
NameTexts ==
  IF "long" \in profile
     THEN { Repeat("a", MaxNameLen + 1) }
     ELSE { <<" ", "a">>, <<"a", "/", "b">> }
TagTexts ==
  IF "long" \in profile
     THEN { Repeat("y", MaxTagLen + 1) }
     ELSE IF "suggest" \in profile
     THEN { <<"w", "a", " ", "w">>, <<"W", " ", "w">>, <<"x", " ">> }
     ELSE { <<"y", " ", "y">> }
EditTagTexts ==
  IF "add" \in profile
     THEN { <<"y">> }
     ELSE { <<"y", " ", "y">>, <<"x">> }
QueryTexts == { <<"a">>, <<"B", "a">> }

Chars(texts) == UNION {{t[i] : i \in 1..Len(t)} : t \in texts}
IsPrefix(p, t) == Len(p) <= Len(t) /\ SubSeq(t, 1, Len(p)) = p
\* the key c may be typed after buf
CanType(buf, c, texts) == \E t \in texts : IsPrefix(Append(buf, c), t)

\* command-line arguments <name> [tags...] of the one-shot commands
Alpha == <<"a", "l", "p", "h", "a">>
Beta == <<"b", "e", "t", "a">>
CliArgs ==
  { [name |-> Alpha,             tags |-> << <<"x">>, <<"y">> >>],
    [name |-> Beta,              tags |-> << <<"y">> >>],
    [name |-> <<"a", "/", "b">>, tags |-> << >>] }

\* texts read from stdin by write
StdinTexts == { <<>> }

\* texts the external editor can leave in the temporary file
EditorTexts == { <<>>, <<"B">> }

\* texts the Summarizer can return
Summaries == {"S1", "S2"}

\* the database after `scrap write alpha x y` and `scrap write beta y`
AlphaBetaDb ==
  insert_note(insert_note(<<>>, 0, Alpha, <<>>, << <<"x">>, <<"y">> >>),
              0, Beta, <<>>, << <<"y">> >>)

\* that database after a session cached the summary "S0" for alpha
CachedDb == set_summary(AlphaBetaDb, 0, 1, "S0")

\* the database after `scrap write alpha W wa wb wc wd we`: six tags that
\* begin with w or W, one more than the suggestion list holds
SuggestDb ==
  insert_note(<<>>, 0, Alpha, <<>>,
              << <<"W">>, <<"w", "a">>, <<"w", "b">>, <<"w", "c">>, <<"w", "d">>,
                 <<"w", "e">> >>)

\* markdown tables: the header cells and the rows of body cells. The third
\* has a header cell one character wider than a column.
Tables ==
  { [head |-> << <<"A">>, <<"B">> >>, rows |-> << << <<"1">>, <<"2">> >> >>],
    [head |-> << <<"A">> >>, rows |-> << << <<"1">> >>, << <<"2", "2">> >> >>],
    [head |-> << Repeat("a", COL_WIDTH + 1) >>, rows |-> << << <<"1">> >> >>] }

\* the input of render_markdown for a table: its text, "| A | B |", "|---|---|",
\* "| 1 | 2 |" on lines of their own, and the events Parser::new_ext yields for
\* it with ENABLE_TABLES: the header cells inside TableHead, every body row
\* inside a TableRow, every cell a TableCell around its Text
TableDoc(t) ==
  LET Ev(ev, tag, text) == [ev |-> ev, tag |-> tag, level |-> 0, text |-> text,
                            dest_url |-> <<>>, checked |-> FALSE]
      RECURSIVE Flat(_)
      Flat(ss) == IF ss = <<>> THEN <<>> ELSE Head(ss) \o Flat(Tail(ss))
      RowText(cells) == <<"|">> \o Flat([k \in 1..Len(cells) |->
                                           <<" ">> \o cells[k] \o <<" ", "|">>])
      RuleText == <<"|">> \o Flat([k \in 1..Len(t.head) |-> <<"-", "-", "-", "|">>])
      Cells(cells) == Flat([k \in 1..Len(cells) |->
                              << Ev("Start", "TableCell", <<>>) >>
                                \o (IF cells[k] = <<>> THEN <<>>
                                    ELSE << Ev("Text", "", cells[k]) >>)
                                \o << Ev("End", "TableCell", <<>>) >>])
  IN [text |-> RowText(t.head) \o <<"\n">> \o RuleText
                 \o Flat([i \in 1..Len(t.rows) |-> <<"\n">> \o RowText(t.rows[i])]),
      events |-> << Ev("Start", "Table", <<>>), Ev("Start", "TableHead", <<>>) >>
                   \o Cells(t.head)
                   \o << Ev("End", "TableHead", <<>>) >>
                   \o Flat([i \in 1..Len(t.rows) |->
                              << Ev("Start", "TableRow", <<>>) >>
                                \o Cells(t.rows[i])
                                \o << Ev("End", "TableRow", <<>>) >>])
                   \o << Ev("End", "Table", <<>>) >>]

\* fenced code blocks: the lines of their content
CodeBlocks == { <<>>, << <<"a">> >>, << <<"a">>, <<"b">> >> }

\* the input of render_markdown for a fenced code block: the opening fence, the
\* content lines and the closing fence, each on a line of its own, and the
\* events the parser yields for it: the content as one Text in which every line
\* ends with its line feed, and no Text for a block without content
CodeDoc(c) ==
  LET Ev(ev, tag, text) == [ev |-> ev, tag |-> tag, level |-> 0, text |-> text,
                            dest_url |-> <<>>, checked |-> FALSE]
      RECURSIVE Flat(_)
      Flat(ss) == IF ss = <<>> THEN <<>> ELSE Head(ss) \o Flat(Tail(ss))
      fence == <<"backtick", "backtick", "backtick">>
      content == Flat([k \in 1..Len(c) |-> c[k] \o <<"\n">>])
  IN [text |-> fence \o <<"\n">> \o content \o fence,
      events |-> << Ev("Start", "CodeBlock", <<>>) >>
                   \o (IF c = <<>> THEN <<>> ELSE << Ev("Text", "", content) >>)
                   \o << Ev("End", "CodeBlock", <<>>) >>]

\* what a list item starts with
Items == {"text", "code", "emphasis", "link", "checked", "unchecked"}

\* the input of render_markdown for a list of one item, "- a", "- `c`", "- *e*",
\* "- [l](u)", "- [x] t" or "- [ ] t", and the events the parser yields for it
\* with ENABLE_TASKLISTS (the item of a tight list has no Paragraph)
ItemDoc(i) ==
  LET Ev(ev, tag, text) == [ev |-> ev, tag |-> tag, level |-> 0, text |-> text,
                            dest_url |-> <<>>, checked |-> FALSE]
      source == CASE i = "text" -> <<"a">>
                  [] i = "code" -> <<"backtick", "c", "backtick">>
                  [] i = "emphasis" -> <<"*", "e", "*">>
                  [] i = "link" -> <<"[", "l", "]", "(", "u", ")">>
                  [] i = "checked" -> <<"[", "x", "]", " ", "t">>
                  [] i = "unchecked" -> <<"[", " ", "]", " ", "t">>
      inline == CASE i = "text" -> << Ev("Text", "", <<"a">>) >>
                  [] i = "code" -> << Ev("Code", "", <<"c">>) >>
                  [] i = "emphasis" -> << Ev("Start", "Emphasis", <<>>),
                                          Ev("Text", "", <<"e">>),
                                          Ev("End", "Emphasis", <<>>) >>
                  [] i = "link" -> << [Ev("Start", "Link", <<>>) EXCEPT !.dest_url = <<"u">>],
                                      Ev("Text", "", <<"l">>),
                                      Ev("End", "Link", <<>>) >>
                  [] i = "checked" -> << [Ev("TaskListMarker", "", <<>>) EXCEPT !.checked = TRUE],
                                         Ev("Text", "", <<"t">>) >>
                  [] i = "unchecked" -> << Ev("TaskListMarker", "", <<>>),
                                           Ev("Text", "", <<"t">>) >>
  IN [text |-> <<"-", " ">> \o source,
      events |-> << Ev("Start", "List", <<>>), Ev("Start", "Item", <<>>) >>
                   \o inline
                   \o << Ev("End", "Item", <<>>), Ev("End", "List", <<>>) >>]

\* inputs of render_markdown: blank texts, for which the parser yields no
\* event, the paragraph "a", the tables, the code blocks and the list items
Docs ==
  { [text |-> txt, events |-> <<>>] :
      txt \in { <<>>, <<" ">>, <<"\n">>, <<" ", "\t", "\n", " ">> } }
    \cup { [text |-> <<"a">>,
            events |-> << [ev |-> "Start", tag |-> "Paragraph", level |-> 0, text |-> <<>>,
                           dest_url |-> <<>>, checked |-> FALSE],
                          [ev |-> "Text", tag |-> "", level |-> 0, text |-> <<"a">>,
                           dest_url |-> <<>>, checked |-> FALSE],
                          [ev |-> "End", tag |-> "Paragraph", level |-> 0, text |-> <<>>,
                           dest_url |-> <<>>, checked |-> FALSE] >>] }
    \cup { TableDoc(t) : t \in Tables }
    \cup { CodeDoc(c) : c \in CodeBlocks }
    \cup { ItemDoc(i) : i \in Items }

\* version strings: CARGO_PKG_VERSION and the tag of the formula
Versions ==
  { <<"0", ".", "1", ".", "0">>,
    <<"0", ".", "2", ".", "0">>,
    <<"0", ".", "1", ".", "1">>,
    <<"1", ".", "0", ".", "0">>,
    <<"0", ".", "9", ".", "9">>,
    <<"0", ".", "1">>,
    <<"0", ".", "1", "0">>,
    <<"0", ".", "9">>,
    <<"0", "1", ".", "0">>,
    <<"0", ".", "1", "0", "0", "0", "0", "0", "0", "0", "0", "0", "0">>,
    <<"0", ".", "1", ".", "x">> }

\* A run explores one profile: the database it starts from and the classes of
\* input its environment gives (which keys the user presses, whether an editor
\* is installed, whether the clock advances between commands). Every class is
\* part of some profile.
ProfileBrowse ==
  [db |-> AlphaBetaDb,
   uses |-> {"session", "quit", "nav", "search", "tagbrowse", "preview", "scroll",
             "command"}]
ProfileAdd ==
  [db |-> <<>>,
   uses |-> {"session", "quit", "nav", "command", "add", "edit", "editor", "dbfail"}]
ProfileSummary ==
  [db |-> CachedDb,
   uses |-> {"session", "quit", "nav", "command", "summarize", "open", "editor",
             "preview", "search", "clock", "dbfail"}]
ProfileCli ==
  [db |-> <<>>,
   uses |-> {"session", "quit", "cli", "editor", "clock", "nav"}]
ProfileCliEdit ==
  [db |-> CachedDb,
   uses |-> {"cliedit", "editor", "clock"}]
ProfileLong ==
  [db |-> <<>>,
   uses |-> {"session", "command", "add", "long"}]
ProfileSuggest ==
  [db |-> SuggestDb,
   uses |-> {"session", "command", "add", "suggest"}]
ProfileEdit ==
  [db |-> AlphaBetaDb,
   uses |-> {"session", "nav", "command", "edit"}]
ProfilePure ==
  [db |-> <<>>,
   uses |-> {"render", "version", "update"}]
ProfilePreview ==
  [db |-> CachedDb,
   uses |-> {"session", "nav", "tagbrowse", "preview", "command", "add", "expire"}]

Profiles == {ProfileBrowse, ProfileAdd, ProfileSummary, ProfileCli, ProfileCliEdit,
             ProfileLong, ProfileSuggest, ProfileEdit, ProfilePure, ProfilePreview}

\* the run's user gives inputs of class c
Input(c) == c \in profile /\ profile' = profile

\* ------------------------------------------------------------------------
\* Initial state: the profile's database, no session
\* ------------------------------------------------------------------------

\* no pure function has been called yet
NoCall == [fn |-> "none"]

\* the App fields while no session exists
NoSession ==
  /\ notes = <<>>
  /\ filtered_notes = <<>>
  /\ selected = 0
  /\ mode = "Normal"
  /\ search_query = <<>>
  /\ input_buffer = <<>>
  /\ tags_buffer = <<>>
  /\ status_message = None
  /\ should_quit = FALSE
  /\ focus = "NoteList"
  /\ all_tags = <<>>
  /\ visible_tags = <<>>
  /\ selected_tag = 0
  /\ active_tag_filters = <<>>
  /\ showing_summary = FALSE
  /\ summary_content = None
  /\ summary_stale = FALSE
  /\ summary_force_regen = FALSE
  /\ preview_tab = "Note"
  /\ preview_scroll = 0
  /\ tag_suggestions = <<>>
  /\ selected_suggestion = 0
  /\ status_expires = Nothing

Init ==
  /\ \E p \in Profiles :
       /\ profile = p.uses
       /\ db = p.db
  /\ now = 0
  /\ phase = "shell"
  /\ raw_mode = FALSE
  /\ call = NoCall
  /\ version_cache = Nothing
  /\ NoSession

\* ------------------------------------------------------------------------
\* Environment: the clock
\* ------------------------------------------------------------------------

\* a second passes: CURRENT_TIMESTAMP advances
Tick ==
  /\ Input("clock")
  /\ UNCHANGED raw_mode
  /\ UNCHANGED <<suggestVars, call, status_expires, version_cache>>
  /\ now < MaxTime
  /\ now' = now + 1
  /\ UNCHANGED <<db, phase, notes, filtered_notes, selected, mode, search_query,
                 input_buffer, tags_buffer, status_message, should_quit, focus,
                 all_tags, visible_tags, selected_tag, active_tag_filters,
                 showing_summary, summary_content, summary_stale,
                 summary_force_regen, preview_tab, preview_scroll>>

appVars == <<notes, filtered_notes, selected, mode, search_query, input_buffer,
             tags_buffer, status_message, should_quit, focus, all_tags,
             visible_tags, selected_tag, active_tag_filters, showing_summary,
             summary_content, summary_stale, summary_force_regen, preview_tab,
             preview_scroll>>

\* ------------------------------------------------------------------------
\* commands/*.rs: one-shot commands, run from the shell
\* ------------------------------------------------------------------------

\* commands::write::run, on a call that returns Ok
CliWrite ==
  /\ Input("cli")
  /\ UNCHANGED raw_mode
  /\ UNCHANGED <<suggestVars, call, status_expires, version_cache>>
  /\ phase = "shell"
  /\ \E a \in CliArgs, content \in StdinTexts :
       LET i == get_note(db, a.name) IN
       IF i # 0
          THEN LET id == db[i].id
                   d1 == update_note(db, now, id, content)
                   d2 == IF a.tags # <<>> THEN update_tags(d1, now, id, a.tags) ELSE d1
               IN db' = mark_summary_stale(d2, now, id)
          ELSE /\ Len(db) < MaxNotes
               /\ db' = insert_note(db, now, a.name, content, a.tags)
  /\ UNCHANGED <<now, phase>>
  /\ UNCHANGED appVars

\* commands::add::run, on a call that returns Ok
CliAdd ==
  /\ Input("cli")
  /\ UNCHANGED raw_mode
  /\ UNCHANGED <<suggestVars, call, status_expires, version_cache>>
  /\ "editor" \in profile
  /\ phase = "shell"
  /\ \E a \in CliArgs, contents \in EditorTexts :
       /\ validate_name(a.name) = "ok"
       /\ validate_tags(a.tags) = "ok"
       /\ get_note(db, a.name) = 0
       /\ Len(db) < MaxNotes
       /\ db' = insert_note(db, now, a.name, contents, a.tags)
  /\ UNCHANGED <<now, phase>>
  /\ UNCHANGED appVars

\* commands::open::run, on a call that returns Ok with changed contents
CliOpen ==
  /\ Input("cliedit")
  /\ UNCHANGED raw_mode
  /\ UNCHANGED <<suggestVars, call, status_expires, version_cache>>
  /\ "editor" \in profile
  /\ phase = "shell"
  /\ \E a \in CliArgs, new_contents \in EditorTexts :
       LET i == get_note(db, a.name) IN
       /\ validate_name(a.name) = "ok"
       /\ i # 0
       /\ new_contents # db[i].note
       /\ db' = update_note(db, now, db[i].id, new_contents)
  /\ UNCHANGED <<now, phase>>
  /\ UNCHANGED appVars

\* commands::append::run, on a call that returns Ok
CliAppend ==
  /\ Input("cliedit")
  /\ UNCHANGED raw_mode
  /\ UNCHANGED <<suggestVars, call, status_expires, version_cache>>
  /\ phase = "shell"
  /\ \E a \in CliArgs, new_content \in StdinTexts :
       LET i == get_note(db, a.name)
           combined == db[i].note \o <<"\n">> \o new_content
       IN /\ i # 0
          /\ Len(combined) <= MaxBody
          /\ db' = mark_summary_stale(update_note(db, now, db[i].id, combined), now, db[i].id)
  /\ UNCHANGED <<now, phase>>
  /\ UNCHANGED appVars

\* the add branch of edit_tag::run and of handle_edit_tags
add_tags(existing, new) ==
  LET RECURSIVE Go(_, _)
      Go(acc, rest) ==
        IF rest = <<>> THEN acc
        ELSE Go(IF InSeq(Head(rest), acc) THEN acc ELSE Append(acc, Head(rest)), Tail(rest))
  IN Go(existing, new)

\* the delete branch of edit_tag::run and of handle_edit_tags
remove_tags(existing, new) == retain_not_in(existing, new)

\* commands::edit_tag::run, on a call that returns Ok
CliEditTag ==
  /\ Input("cli")
  /\ UNCHANGED raw_mode
  /\ UNCHANGED <<suggestVars, call, status_expires, version_cache>>
  /\ phase = "shell"
  /\ \E a \in CliArgs, add \in BOOLEAN :
       LET i == get_tags_and_id(db, a.name) IN
       /\ a.tags # <<>>
       /\ validate_name(a.name) = "ok"
       /\ validate_tags(a.tags) = "ok"
       /\ i # 0
       /\ db' = update_tags(db, now, db[i].id,
                            IF add THEN add_tags(db[i].tags, a.tags)
                                   ELSE remove_tags(db[i].tags, a.tags))
  /\ UNCHANGED <<now, phase>>
  /\ UNCHANGED appVars

\* tui::run up to run_loop: App::new(conn, db::list_notes(&conn)), enable_raw_mode,
\* EnterAlternateScreen
StartSession ==
  /\ Input("session")
  /\ phase = "shell"
  /\ phase' = "tui"
  /\ raw_mode' = TRUE
  /\ UNCHANGED <<suggestVars, call, status_expires, version_cache>>
  /\ \E listing \in list_notes(db) :
       /\ notes' = listing
       /\ filtered_notes' = [k \in 1..Len(listing) |-> k - 1]
       /\ all_tags' = compute_tags(listing)
       /\ visible_tags' = compute_tags(listing)
  /\ UNCHANGED <<db, now, selected, mode, search_query, input_buffer, tags_buffer,
                 status_message, should_quit, focus, selected_tag,
                 active_tag_filters, showing_summary, summary_content,
                 summary_stale, summary_force_regen, preview_tab, preview_scroll>>

\* run_loop: `if app.should_quit { break }`, then tui::run calls disable_raw_mode and
\* LeaveAlternateScreen and returns, and App is dropped
RunLoopExit ==
  /\ Input("quit")
  /\ phase = "tui"
  /\ should_quit
  /\ phase' = "shell"
  /\ raw_mode' = FALSE
  /\ notes' = <<>>
  /\ filtered_notes' = <<>>
  /\ selected' = 0
  /\ mode' = "Normal"
  /\ search_query' = <<>>
  /\ input_buffer' = <<>>
  /\ tags_buffer' = <<>>
  /\ status_message' = None
  /\ should_quit' = FALSE
  /\ focus' = "NoteList"
  /\ all_tags' = <<>>
  /\ visible_tags' = <<>>
  /\ selected_tag' = 0
  /\ active_tag_filters' = <<>>
  /\ showing_summary' = FALSE
  /\ summary_content' = None
  /\ summary_stale' = FALSE
  /\ summary_force_regen' = FALSE
  /\ preview_tab' = "Note"
  /\ preview_scroll' = 0
  /\ tag_suggestions' = <<>>
  /\ selected_suggestion' = 0
  /\ status_expires' = Nothing
  /\ UNCHANGED <<call, version_cache>>
  /\ UNCHANGED <<db, now>>

\* a Storage call of a key handler returns Err: `?` returns it from handle_key
\* and from run_loop, tui::run restores the terminal and returns the error, and
\* App is dropped; d is the table as the handler left it
RunLoopErr(d) ==
  /\ Input("dbfail")
  /\ phase' = "shell"
  /\ raw_mode' = FALSE
  /\ db' = d
  /\ notes' = <<>>
  /\ filtered_notes' = <<>>
  /\ selected' = 0
  /\ mode' = "Normal"
  /\ search_query' = <<>>
  /\ input_buffer' = <<>>
  /\ tags_buffer' = <<>>
  /\ status_message' = None
  /\ should_quit' = FALSE
  /\ focus' = "NoteList"
  /\ all_tags' = <<>>
  /\ visible_tags' = <<>>
  /\ selected_tag' = 0
  /\ active_tag_filters' = <<>>
  /\ showing_summary' = FALSE
  /\ summary_content' = None
  /\ summary_stale' = FALSE
  /\ summary_force_regen' = FALSE
  /\ preview_tab' = "Note"
  /\ preview_scroll' = 0
  /\ tag_suggestions' = <<>>
  /\ selected_suggestion' = 0
  /\ status_expires' = Nothing
  /\ UNCHANGED <<call, version_cache>>
  /\ UNCHANGED now

\* a second passes on the monotonic clock while run_loop waits in event::poll:
\* the Instant of status_expires comes a second closer
Elapse ==
  /\ Input("expire")
  /\ phase = "tui"
  /\ status_expires # Nothing
  /\ Unwrap(status_expires) > 0
  /\ status_expires' = Some(Unwrap(status_expires) - 1)
  /\ UNCHANGED <<db, now, phase, raw_mode, appVars, suggestVars, call, version_cache>>

\* run_loop, top of an iteration: `if Instant::now() >= expires` clears the
\* status message and the expiry
RunLoopClearExpired ==
  /\ Input("expire")
  /\ phase = "tui" /\ ~should_quit
  /\ status_expires # Nothing
  /\ Unwrap(status_expires) = 0
  /\ status_message' = None
  /\ status_expires' = Nothing
  /\ UNCHANGED <<db, now, phase, raw_mode, notes, filtered_notes, selected, mode,
                 search_query, input_buffer, tags_buffer, should_quit, focus, all_tags,
                 visible_tags, selected_tag, active_tag_filters, showing_summary,
                 summary_content, summary_stale, summary_force_regen, preview_tab,
                 preview_scroll, suggestVars, call, version_cache>>

\* ------------------------------------------------------------------------
\* tui/events.rs: handle_key, one action per handler and key
\* ------------------------------------------------------------------------

\* run_loop has read a key press and the session has not been told to quit
KeyPress == phase = "tui" /\ ~should_quit

\* handle_key's dispatch: which handler gets the key
InPreview == focus = "Preview" /\ mode = "Normal"
\* a dispatch on the mode alone, which does not consult the focus first
InMode_ignores_focus(m) == KeyPress /\ mode = m
InMode(m) == KeyPress /\ ~InPreview /\ mode = m

\* clear_summary that leaves the stale flag as it is
clear_summary_keeps_stale ==
  /\ showing_summary' = FALSE
  /\ summary_content' = None
  /\ summary_force_regen' = FALSE
  /\ UNCHANGED summary_stale

\* clear_summary
clear_summary ==
  /\ showing_summary' = FALSE
  /\ summary_content' = None
  /\ summary_stale' = FALSE
  /\ summary_force_regen' = FALSE

\* the assignments of apply_filter, then `app.selected = 0`
ApplyFilterSelect0(sq, active) ==
  LET f == apply_filter(notes, sq, active, selected, selected_tag) IN
  /\ filtered_notes' = f.filtered_notes
  /\ visible_tags' = f.visible_tags
  /\ selected_tag' = f.selected_tag
  /\ selected' = 0

\* refresh_notes that lists the table as it was when the handler started
RefreshNotes_of_old_table(d) ==
  \E listing \in list_notes(db) :
    LET r == refresh_notes(listing, search_query, active_tag_filters, selected, selected_tag) IN
    /\ notes' = r.notes
    /\ all_tags' = r.all_tags
    /\ filtered_notes' = r.filtered_notes
    /\ selected' = r.selected
    /\ visible_tags' = r.visible_tags
    /\ selected_tag' = r.selected_tag

\* the assignments of refresh_notes on the table d
RefreshNotes(d) ==
  \E listing \in list_notes(d) :
    LET r == refresh_notes(listing, search_query, active_tag_filters, selected, selected_tag) IN
    /\ notes' = r.notes
    /\ all_tags' = r.all_tags
    /\ filtered_notes' = r.filtered_notes
    /\ selected' = r.selected
    /\ visible_tags' = r.visible_tags
    /\ selected_tag' = r.selected_tag

\* ---- handle_normal ----

Normal_q ==
  /\ Input("quit")
  /\ UNCHANGED raw_mode
  /\ UNCHANGED <<suggestVars, call, status_expires, version_cache>>
  /\ InMode("Normal")
  /\ should_quit' = TRUE
  /\ UNCHANGED <<db, now, phase, notes, filtered_notes, selected, mode, search_query,
                 input_buffer, tags_buffer, status_message, focus, all_tags,
                 visible_tags, selected_tag, active_tag_filters, showing_summary,
                 summary_content, summary_stale, summary_force_regen, preview_tab,
                 preview_scroll>>

\* 'j' | Down (delta 1) and 'k' | Up (delta -1)
Normal_Move(delta) ==
  /\ Input("nav")
  /\ UNCHANGED raw_mode
  /\ UNCHANGED <<suggestVars, call, status_expires, version_cache>>
  /\ InMode("Normal")
  /\ selected' = move_selection(selected, Len(filtered_notes), delta)
  /\ clear_summary
  /\ preview_scroll' = 0
  /\ UNCHANGED <<db, now, phase, notes, filtered_notes, mode, search_query,
                 input_buffer, tags_buffer, status_message, should_quit, focus,
                 all_tags, visible_tags, selected_tag, active_tag_filters, preview_tab>>

Normal_j == Normal_Move(1)
Normal_k == Normal_Move(-1)

Normal_Slash ==
  /\ Input("search")
  /\ UNCHANGED raw_mode
  /\ UNCHANGED <<suggestVars, call, status_expires, version_cache>>
  /\ InMode("Normal")
  /\ mode' = "Search"
  /\ search_query' = <<>>
  /\ ApplyFilterSelect0(<<>>, active_tag_filters)
  /\ status_message' = None
  /\ UNCHANGED <<db, now, phase, notes, input_buffer, tags_buffer, should_quit, focus,
                 all_tags, active_tag_filters, showing_summary, summary_content,
                 summary_stale, summary_force_regen, preview_tab, preview_scroll>>

Normal_Colon ==
  /\ Input("command")
  /\ UNCHANGED raw_mode
  /\ UNCHANGED <<suggestVars, call, status_expires, version_cache>>
  /\ InMode("Normal")
  /\ mode' = "Command"
  /\ status_message' = None
  /\ UNCHANGED <<db, now, phase, notes, filtered_notes, selected, search_query,
                 input_buffer, tags_buffer, should_quit, focus, all_tags,
                 visible_tags, selected_tag, active_tag_filters, showing_summary,
                 summary_content, summary_stale, summary_force_regen, preview_tab,
                 preview_scroll>>

Normal_Esc ==
  /\ Input("nav")
  /\ UNCHANGED raw_mode
  /\ UNCHANGED <<suggestVars, call, status_expires, version_cache>>
  /\ InMode("Normal")
  /\ clear_summary
  /\ UNCHANGED <<db, now, phase, notes, filtered_notes, selected, mode, search_query,
                 input_buffer, tags_buffer, status_message, should_quit, focus,
                 all_tags, visible_tags, selected_tag, active_tag_filters,
                 preview_tab, preview_scroll>>

Normal_Tab ==
  /\ Input("tagbrowse")
  /\ UNCHANGED raw_mode
  /\ UNCHANGED <<suggestVars, call, status_expires, version_cache>>
  /\ InMode("Normal")
  /\ focus' = "TagPanel"
  /\ mode' = "TagBrowse"
  /\ status_message' = None
  /\ clear_summary
  /\ UNCHANGED <<db, now, phase, notes, filtered_notes, selected, search_query,
                 input_buffer, tags_buffer, should_quit, all_tags, visible_tags,
                 selected_tag, active_tag_filters, preview_tab, preview_scroll>>

\* ---- handle_preview ----

Preview_q ==
  /\ Input("quit")
  /\ UNCHANGED raw_mode
  /\ UNCHANGED <<suggestVars, call, status_expires, version_cache>>
  /\ KeyPress /\ InPreview
  /\ should_quit' = TRUE
  /\ UNCHANGED <<db, now, phase, notes, filtered_notes, selected, mode, search_query,
                 input_buffer, tags_buffer, status_message, focus, all_tags,
                 visible_tags, selected_tag, active_tag_filters, showing_summary,
                 summary_content, summary_stale, summary_force_regen, preview_tab,
                 preview_scroll>>

\* 'j' | Down: preview_scroll.saturating_add(1), followed here up to MaxScroll
Preview_j ==
  /\ Input("scroll")
  /\ UNCHANGED raw_mode
  /\ UNCHANGED <<suggestVars, call, status_expires, version_cache>>
  /\ KeyPress /\ InPreview
  /\ preview_scroll < MaxScroll
  /\ preview_scroll' = preview_scroll + 1
  /\ UNCHANGED <<db, now, phase, notes, filtered_notes, selected, mode, search_query,
                 input_buffer, tags_buffer, status_message, should_quit, focus,
                 all_tags, visible_tags, selected_tag, active_tag_filters,
                 showing_summary, summary_content, summary_stale,
                 summary_force_regen, preview_tab>>

\* 'k' | Up: preview_scroll.saturating_sub(1)
Preview_k ==
  /\ Input("scroll")
  /\ UNCHANGED raw_mode
  /\ UNCHANGED <<suggestVars, call, status_expires, version_cache>>
  /\ KeyPress /\ InPreview
  /\ preview_scroll' = IF preview_scroll = 0 THEN 0 ELSE preview_scroll - 1
  /\ UNCHANGED <<db, now, phase, notes, filtered_notes, selected, mode, search_query,
                 input_buffer, tags_buffer, status_message, should_quit, focus,
                 all_tags, visible_tags, selected_tag, active_tag_filters,
                 showing_summary, summary_content, summary_stale,
                 summary_force_regen, preview_tab>>

Preview_Tab ==
  /\ Input("preview")
  /\ UNCHANGED raw_mode
  /\ UNCHANGED <<suggestVars, call, version_cache>>
  /\ KeyPress /\ InPreview
  /\ IF preview_tab = "Note"
        THEN LET note == selected_note(notes, filtered_notes, selected)
                 cached == IF note = Nothing THEN Nothing
                           ELSE get_summary(db, Unwrap(note).id)
                 load == summary_content = None /\ cached # Nothing
                 content == IF load THEN Unwrap(cached).text ELSE summary_content
             IN /\ summary_content' = content
                /\ showing_summary' = IF load THEN TRUE ELSE showing_summary
                /\ summary_stale' = IF load THEN Unwrap(cached).stale ELSE summary_stale
                /\ IF content # None
                      THEN /\ preview_tab' = "Summary"
                           /\ UNCHANGED <<status_message, status_expires, focus>>
                      ELSE /\ status_message' = "NoSummaryAvailable"
                           /\ status_expires' = Some(StatusSeconds)
                           /\ focus' = "NoteList"
                           /\ UNCHANGED preview_tab
        ELSE /\ focus' = "NoteList"
             /\ preview_tab' = "Note"
             /\ UNCHANGED <<summary_content, showing_summary, summary_stale,
                            status_message, status_expires>>
  /\ preview_scroll' = 0
  /\ UNCHANGED <<db, now, phase, notes, filtered_notes, selected, mode, search_query,
                 input_buffer, tags_buffer, should_quit, all_tags, visible_tags,
                 selected_tag, active_tag_filters, summary_force_regen>>

Preview_Esc ==
  /\ Input("preview")
  /\ UNCHANGED raw_mode
  /\ UNCHANGED <<suggestVars, call, status_expires, version_cache>>
  /\ KeyPress /\ InPreview
  /\ focus' = "NoteList"
  /\ preview_scroll' = 0
  /\ UNCHANGED <<db, now, phase, notes, filtered_notes, selected, mode, search_query,
                 input_buffer, tags_buffer, status_message, should_quit, all_tags,
                 visible_tags, selected_tag, active_tag_filters, showing_summary,
                 summary_content, summary_stale, summary_force_regen, preview_tab>>

\* ':' that enters Command mode and leaves the focus on the preview pane
Preview_Colon_keeps_focus ==
  /\ Input("preview")
  /\ UNCHANGED raw_mode
  /\ UNCHANGED <<suggestVars, call, status_expires, version_cache>>
  /\ KeyPress /\ InPreview
  /\ mode' = "Command"
  /\ status_message' = None
  /\ UNCHANGED <<db, now, phase, notes, filtered_notes, selected, search_query,
                 input_buffer, tags_buffer, should_quit, all_tags, visible_tags,
                 selected_tag, active_tag_filters, showing_summary, summary_content,
                 summary_stale, summary_force_regen, preview_tab, preview_scroll, focus>>

Preview_Colon ==
  /\ Input("preview")
  /\ UNCHANGED raw_mode
  /\ UNCHANGED <<suggestVars, call, status_expires, version_cache>>
  /\ KeyPress /\ InPreview
  /\ focus' = "NoteList"
  /\ mode' = "Command"
  /\ status_message' = None
  /\ UNCHANGED <<db, now, phase, notes, filtered_notes, selected, search_query,
                 input_buffer, tags_buffer, should_quit, all_tags, visible_tags,
                 selected_tag, active_tag_filters, showing_summary, summary_content,
                 summary_stale, summary_force_regen, preview_tab, preview_scroll>>

\* ---- handle_tag_browse ----

TagBrowse_q ==
  /\ Input("quit")
  /\ UNCHANGED raw_mode
  /\ UNCHANGED <<suggestVars, call, status_expires, version_cache>>
  /\ InMode("TagBrowse")
  /\ should_quit' = TRUE
  /\ UNCHANGED <<db, now, phase, notes, filtered_notes, selected, mode, search_query,
                 input_buffer, tags_buffer, status_message, focus, all_tags,
                 visible_tags, selected_tag, active_tag_filters, showing_summary,
                 summary_content, summary_stale, summary_force_regen, preview_tab,
                 preview_scroll>>

TagBrowse_Move(delta) ==
  /\ Input("tagbrowse")
  /\ UNCHANGED raw_mode
  /\ UNCHANGED <<suggestVars, call, status_expires, version_cache>>
  /\ InMode("TagBrowse")
  /\ selected_tag' = move_tag_selection(selected_tag, Len(visible_tags), delta)
  /\ UNCHANGED <<db, now, phase, notes, filtered_notes, selected, mode, search_query,
                 input_buffer, tags_buffer, status_message, should_quit, focus,
                 all_tags, visible_tags, active_tag_filters, showing_summary,
                 summary_content, summary_stale, summary_force_regen, preview_tab,
                 preview_scroll>>

TagBrowse_j == TagBrowse_Move(1)
TagBrowse_k == TagBrowse_Move(-1)

\* a toggle that pushes the tag whether or not it is active
toggle_filter_always_pushes(active, tag_name) == Append(active, tag_name)

\* the toggle of handle_tag_browse's Enter: remove at the first position, else push
toggle_filter(active, tag_name) ==
  IF InSeq(tag_name, active)
     THEN LET pos == CHOOSE i \in 1..Len(active) :
                       active[i] = tag_name /\ \A j \in 1..(i - 1) : active[j] # tag_name
          IN SubSeq(active, 1, pos - 1) \o SubSeq(active, pos + 1, Len(active))
     ELSE Append(active, tag_name)

TagBrowse_Enter ==
  /\ Input("tagbrowse")
  /\ UNCHANGED raw_mode
  /\ UNCHANGED <<suggestVars, call, status_expires, version_cache>>
  /\ InMode("TagBrowse")
  /\ selected_tag < Len(visible_tags)
  /\ LET active == toggle_filter(active_tag_filters, visible_tags[selected_tag + 1].name) IN
     /\ active_tag_filters' = active
     /\ ApplyFilterSelect0(search_query, active)
     /\ status_message' = IF active = <<>> THEN None ELSE "FilteredBy"
  /\ UNCHANGED <<db, now, phase, notes, mode, search_query, input_buffer, tags_buffer,
                 should_quit, focus, all_tags, showing_summary, summary_content,
                 summary_stale, summary_force_regen, preview_tab, preview_scroll>>

TagBrowse_Esc ==
  /\ Input("tagbrowse")
  /\ UNCHANGED raw_mode
  /\ UNCHANGED <<suggestVars, call, status_expires, version_cache>>
  /\ InMode("TagBrowse")
  /\ active_tag_filters' = <<>>
  /\ ApplyFilterSelect0(search_query, <<>>)
  /\ focus' = "NoteList"
  /\ mode' = "Normal"
  /\ status_message' = None
  /\ UNCHANGED <<db, now, phase, notes, search_query, input_buffer, tags_buffer,
                 should_quit, all_tags, showing_summary, summary_content,
                 summary_stale, summary_force_regen, preview_tab, preview_scroll>>

TagBrowse_Tab ==
  /\ Input("preview")
  /\ UNCHANGED raw_mode
  /\ UNCHANGED <<suggestVars, call, status_expires, version_cache>>
  /\ InMode("TagBrowse")
  /\ focus' = "Preview"
  /\ mode' = "Normal"
  /\ preview_scroll' = 0
  /\ UNCHANGED <<db, now, phase, notes, filtered_notes, selected, search_query,
                 input_buffer, tags_buffer, status_message, should_quit, all_tags,
                 visible_tags, selected_tag, active_tag_filters, showing_summary,
                 summary_content, summary_stale, summary_force_regen, preview_tab>>

TagBrowse_Colon ==
  /\ Input("tagbrowse")
  /\ UNCHANGED raw_mode
  /\ UNCHANGED <<suggestVars, call, status_expires, version_cache>>
  /\ InMode("TagBrowse")
  /\ focus' = "NoteList"
  /\ mode' = "Command"
  /\ status_message' = None
  /\ UNCHANGED <<db, now, phase, notes, filtered_notes, selected, search_query,
                 input_buffer, tags_buffer, should_quit, all_tags, visible_tags,
                 selected_tag, active_tag_filters, showing_summary, summary_content,
                 summary_stale, summary_force_regen, preview_tab, preview_scroll>>

\* ---- handle_search ----

\* Esc that clears the query and leaves the filtered list as it was
Search_Esc_keeps_list ==
  /\ Input("search")
  /\ UNCHANGED raw_mode
  /\ UNCHANGED <<suggestVars, call, status_expires, version_cache>>
  /\ InMode("Search")
  /\ search_query' = <<>>
  /\ selected' = 0
  /\ mode' = "Normal"
  /\ UNCHANGED <<db, now, phase, notes, filtered_notes, visible_tags, selected_tag,
                 input_buffer, tags_buffer, status_message,
                 should_quit, focus, all_tags, active_tag_filters, showing_summary,
                 summary_content, summary_stale, summary_force_regen, preview_tab,
                 preview_scroll>>

Search_Esc ==
  /\ Input("search")
  /\ UNCHANGED raw_mode
  /\ UNCHANGED <<suggestVars, call, status_expires, version_cache>>
  /\ InMode("Search")
  /\ search_query' = <<>>
  /\ ApplyFilterSelect0(<<>>, active_tag_filters)
  /\ mode' = "Normal"
  /\ UNCHANGED <<db, now, phase, notes, input_buffer, tags_buffer, status_message,
                 should_quit, focus, all_tags, active_tag_filters, showing_summary,
                 summary_content, summary_stale, summary_force_regen, preview_tab,
                 preview_scroll>>

Search_Enter ==
  /\ Input("search")
  /\ UNCHANGED raw_mode
  /\ UNCHANGED <<suggestVars, call, status_expires, version_cache>>
  /\ InMode("Search")
  /\ mode' = "Normal"
  /\ UNCHANGED <<db, now, phase, notes, filtered_notes, selected, search_query,
                 input_buffer, tags_buffer, status_message, should_quit, focus,
                 all_tags, visible_tags, selected_tag, active_tag_filters,
                 showing_summary, summary_content, summary_stale,
                 summary_force_regen, preview_tab, preview_scroll>>

\* String::pop
pop(s) == IF s = <<>> THEN s ELSE SubSeq(s, 1, Len(s) - 1)

Search_Backspace ==
  /\ Input("search")
  /\ UNCHANGED raw_mode
  /\ UNCHANGED <<suggestVars, call, status_expires, version_cache>>
  /\ InMode("Search")
  /\ search_query' = pop(search_query)
  /\ ApplyFilterSelect0(pop(search_query), active_tag_filters)
  /\ UNCHANGED <<db, now, phase, notes, mode, input_buffer, tags_buffer,
                 status_message, should_quit, focus, all_tags, active_tag_filters,
                 showing_summary, summary_content, summary_stale,
                 summary_force_regen, preview_tab, preview_scroll>>

Search_Char ==
  /\ Input("search")
  /\ UNCHANGED raw_mode
  /\ UNCHANGED <<suggestVars, call, status_expires, version_cache>>
  /\ InMode("Search")
  /\ \E c \in Chars(QueryTexts) :
       /\ CanType(search_query, c, QueryTexts)
       /\ search_query' = Append(search_query, c)
       /\ ApplyFilterSelect0(Append(search_query, c), active_tag_filters)
  /\ UNCHANGED <<db, now, phase, notes, mode, input_buffer, tags_buffer,
                 status_message, should_quit, focus, all_tags, active_tag_filters,
                 showing_summary, summary_content, summary_stale,
                 summary_force_regen, preview_tab, preview_scroll>>

\* ---- handle_command ----

Command_Esc ==
  /\ Input("command")
  /\ UNCHANGED raw_mode
  /\ UNCHANGED <<suggestVars, call, status_expires, version_cache>>
  /\ InMode("Command")
  /\ mode' = "Normal"
  /\ UNCHANGED <<db, now, phase, notes, filtered_notes, selected, search_query,
                 input_buffer, tags_buffer, status_message, should_quit, focus,
                 all_tags, visible_tags, selected_tag, active_tag_filters,
                 showing_summary, summary_content, summary_stale,
                 summary_force_regen, preview_tab, preview_scroll>>

\* 'o', no note selected: open_selected_note returns early
Command_o_NoNote ==
  /\ Input("open")
  /\ UNCHANGED raw_mode
  /\ UNCHANGED <<suggestVars, call, status_expires, version_cache>>
  /\ InMode("Command")
  /\ selected_note(notes, filtered_notes, selected) = Nothing
  /\ mode' = "Normal"
  /\ status_message' = "NoNoteSelected"
  /\ UNCHANGED <<db, now, phase, notes, filtered_notes, selected, search_query,
                 input_buffer, tags_buffer, should_quit, focus, all_tags,
                 visible_tags, selected_tag, active_tag_filters, showing_summary,
                 summary_content, summary_stale, summary_force_regen, preview_tab,
                 preview_scroll>>

\* disable_raw_mode, LeaveAlternateScreen, show_cursor
suspend_terminal == raw_mode' = FALSE

\* the terminal is left as the editor found it
resume_terminal_skipped == raw_mode' = raw_mode

\* enable_raw_mode, EnterAlternateScreen, hide_cursor, clear
resume_terminal == raw_mode' = TRUE

\* the handler that started the editor waits for it; m is App.mode meanwhile
InEditor(m) == phase = "editor" /\ mode = m

\* 'o' with a note selected: the terminal is suspended and the editor starts
Command_o_Launch ==
  /\ Input("open")
  /\ UNCHANGED <<suggestVars, call, status_expires, version_cache>>
  /\ InMode("Command")
  /\ selected_note(notes, filtered_notes, selected) # Nothing
  /\ mode' = "Normal"
  /\ suspend_terminal
  /\ phase' = "editor"
  /\ UNCHANGED <<db, now, notes, filtered_notes, selected, search_query,
                 input_buffer, tags_buffer, status_message, should_quit, focus,
                 all_tags, visible_tags, selected_tag, active_tag_filters,
                 showing_summary, summary_content, summary_stale,
                 summary_force_regen, preview_tab, preview_scroll>>

\* a failed editor call that still stores an empty body
Command_o_EditorErr_stores ==
  /\ Input("open")
  /\ UNCHANGED <<suggestVars, call, status_expires, version_cache>>
  /\ InEditor("Normal")
  /\ resume_terminal
  /\ phase' = "tui"
  /\ status_message' = "Error"
  /\ db' = update_note(db, now, Unwrap(selected_note(notes, filtered_notes, selected)).id,
                       <<"B">>)
  /\ UNCHANGED <<mode, now, notes, filtered_notes, selected, search_query,
                 input_buffer, tags_buffer, should_quit, focus, all_tags,
                 visible_tags, selected_tag, active_tag_filters, showing_summary,
                 summary_content, summary_stale, summary_force_regen, preview_tab,
                 preview_scroll>>

\* 'o', get_user_input_with_contents returns Err
Command_o_EditorErr ==
  /\ Input("open")
  /\ UNCHANGED <<suggestVars, call, status_expires, version_cache>>
  /\ InEditor("Normal")
  /\ resume_terminal
  /\ phase' = "tui"
  /\ status_message' = "Error"
  /\ UNCHANGED mode
  /\ UNCHANGED <<db, now, notes, filtered_notes, selected, search_query,
                 input_buffer, tags_buffer, should_quit, focus, all_tags,
                 visible_tags, selected_tag, active_tag_filters, showing_summary,
                 summary_content, summary_stale, summary_force_regen, preview_tab,
                 preview_scroll>>

\* 'o', the editor returns the text it was given
Command_o_Unchanged ==
  /\ Input("open")
  /\ UNCHANGED <<suggestVars, call, status_expires, version_cache>>
  /\ "editor" \in profile
  /\ InEditor("Normal")
  /\ resume_terminal
  /\ phase' = "tui"
  /\ UNCHANGED mode
  /\ UNCHANGED <<db, now, notes, filtered_notes, selected, search_query,
                 input_buffer, tags_buffer, status_message, should_quit, focus,
                 all_tags, visible_tags, selected_tag, active_tag_filters,
                 showing_summary, summary_content, summary_stale,
                 summary_force_regen, preview_tab, preview_scroll>>

\* 'o', the editor returns a changed text: update_note, mark_summary_stale,
\* refresh_notes, then the displayed summary is cleared if one is showing
Command_o_Changed ==
  /\ Input("open")
  /\ UNCHANGED <<suggestVars, call, status_expires, version_cache>>
  /\ "editor" \in profile
  /\ InEditor("Normal")
  /\ resume_terminal
  /\ phase' = "tui"
  /\ \E new_contents \in EditorTexts :
       LET n == Unwrap(selected_note(notes, filtered_notes, selected))
           d == mark_summary_stale(update_note(db, now, n.id, new_contents), now, n.id)
       IN /\ new_contents # n.note
          /\ db' = d
          /\ RefreshNotes(d)
  /\ status_message' = "NoteUpdated"
  /\ IF showing_summary THEN clear_summary ELSE UNCHANGED summaryVars
  /\ UNCHANGED <<now, mode, search_query, input_buffer, tags_buffer, should_quit,
                 focus, active_tag_filters, preview_tab, preview_scroll>>

\* 'o', the editor returns a changed text and a Storage call fails: update_note,
\* or mark_summary_stale after it, or list_notes in refresh_notes after both
Command_o_StorageErr ==
  /\ Input("open")
  /\ "editor" \in profile
  /\ InEditor("Normal")
  /\ \E new_contents \in EditorTexts, failing \in {"update_note", "mark_summary_stale", "list_notes"} :
       LET n == Unwrap(selected_note(notes, filtered_notes, selected))
           d1 == update_note(db, now, n.id, new_contents)
       IN /\ new_contents # n.note
          /\ RunLoopErr(CASE failing = "update_note" -> db
                           [] failing = "mark_summary_stale" -> d1
                           [] failing = "list_notes" -> mark_summary_stale(d1, now, n.id))

Command_a ==
  /\ Input("add")
  /\ UNCHANGED raw_mode
  /\ UNCHANGED <<suggestVars, call, status_expires, version_cache>>
  /\ InMode("Command")
  /\ input_buffer' = <<>>
  /\ tags_buffer' = <<>>
  /\ mode' = "AddNoteName"
  /\ UNCHANGED <<db, now, phase, notes, filtered_notes, selected, search_query,
                 status_message, should_quit, focus, all_tags, visible_tags,
                 selected_tag, active_tag_filters, showing_summary, summary_content,
                 summary_stale, summary_force_regen, preview_tab, preview_scroll>>

Command_t ==
  /\ Input("edit")
  /\ UNCHANGED raw_mode
  /\ UNCHANGED <<suggestVars, call, status_expires, version_cache>>
  /\ InMode("Command")
  /\ input_buffer' = <<>>
  /\ mode' = "EditTagsAdd"
  /\ UNCHANGED <<db, now, phase, notes, filtered_notes, selected, search_query,
                 tags_buffer, status_message, should_quit, focus, all_tags,
                 visible_tags, selected_tag, active_tag_filters, showing_summary,
                 summary_content, summary_stale, summary_force_regen, preview_tab,
                 preview_scroll>>

\* ---- summarize_selected_note, called for 's' ----

\* the force flag is never armed by a displayed stale summary
force_without_arming == summary_force_regen

\* summary_force_regen after `if showing_summary && summary_stale && !summary_force_regen`
force_after_arming == summary_force_regen \/ (showing_summary /\ summary_stale)

\* a cache check that takes a stale summary for a missing one
cache_hit_fresh_only ==
  LET n == selected_note(notes, filtered_notes, selected) IN
  IF n = Nothing \/ force_after_arming THEN Nothing
  ELSE IF get_summary(db, Unwrap(n).id) # Nothing
          /\ Unwrap(get_summary(db, Unwrap(n).id)).stale THEN Nothing
  ELSE get_summary(db, Unwrap(n).id)

\* what the cache check finds: Nothing when it is skipped or the cache is empty
cache_hit ==
  LET n == selected_note(notes, filtered_notes, selected) IN
  IF n = Nothing \/ force_after_arming THEN Nothing ELSE get_summary(db, Unwrap(n).id)

Command_s_NoNote ==
  /\ Input("summarize")
  /\ UNCHANGED raw_mode
  /\ UNCHANGED <<suggestVars, call, status_expires, version_cache>>
  /\ InMode("Command")
  /\ selected_note(notes, filtered_notes, selected) = Nothing
  /\ mode' = "Normal"
  /\ status_message' = "NoNoteSelected"
  /\ UNCHANGED <<db, now, phase, notes, filtered_notes, selected, search_query,
                 input_buffer, tags_buffer, should_quit, focus, all_tags,
                 visible_tags, selected_tag, active_tag_filters, showing_summary,
                 summary_content, summary_stale, summary_force_regen, preview_tab,
                 preview_scroll>>

\* 's', the cache is consulted and holds a summary: it is displayed
Command_s_Cached ==
  /\ Input("summarize")
  /\ UNCHANGED raw_mode
  /\ UNCHANGED <<suggestVars, call, status_expires, version_cache>>
  /\ InMode("Command")
  /\ cache_hit # Nothing
  /\ mode' = "Normal"
  /\ showing_summary' = TRUE
  /\ summary_stale' = Unwrap(cache_hit).stale
  /\ summary_force_regen' = FALSE
  /\ summary_content' = Unwrap(cache_hit).text
  /\ status_message' = IF Unwrap(cache_hit).stale THEN "SummaryOutdated" ELSE None
  /\ UNCHANGED <<db, now, phase, notes, filtered_notes, selected, search_query,
                 input_buffer, tags_buffer, should_quit, focus, all_tags,
                 visible_tags, selected_tag, active_tag_filters, preview_tab,
                 preview_scroll>>

\* 's', llm::summarize_note is called and returns Ok(summary)
Command_s_Generated ==
  /\ Input("summarize")
  /\ UNCHANGED raw_mode
  /\ UNCHANGED <<suggestVars, call, status_expires, version_cache>>
  /\ InMode("Command")
  /\ selected_note(notes, filtered_notes, selected) # Nothing
  /\ cache_hit = Nothing
  /\ \E summary \in Summaries :
       /\ db' = set_summary(db, now, Unwrap(selected_note(notes, filtered_notes, selected)).id, summary)
       /\ summary_content' = summary
  /\ mode' = "Normal"
  /\ showing_summary' = TRUE
  /\ summary_stale' = FALSE
  /\ summary_force_regen' = FALSE
  /\ status_message' = None
  /\ UNCHANGED <<now, phase, notes, filtered_notes, selected, search_query,
                 input_buffer, tags_buffer, should_quit, focus, all_tags,
                 visible_tags, selected_tag, active_tag_filters, preview_tab,
                 preview_scroll>>

\* 's' and a Storage call fails: get_summary in the cache check, or set_summary
\* after llm::summarize_note returned Ok
Command_s_StorageErr ==
  /\ Input("summarize")
  /\ InMode("Command")
  /\ selected_note(notes, filtered_notes, selected) # Nothing
  /\ RunLoopErr(db)

\* a failed call that also drops the cached summary
Command_s_LlmErr_drops_cache ==
  /\ Input("summarize")
  /\ UNCHANGED raw_mode
  /\ UNCHANGED <<suggestVars, call, status_expires, version_cache>>
  /\ InMode("Command")
  /\ selected_note(notes, filtered_notes, selected) # Nothing
  /\ cache_hit = Nothing
  /\ mode' = "Normal"
  /\ summary_force_regen' = force_after_arming
  /\ status_message' = "SummaryError"
  /\ db' = [i \in 1..Len(db) |->
             IF db[i].id = Unwrap(selected_note(notes, filtered_notes, selected)).id
                THEN [db[i] EXCEPT !.summary = None] ELSE db[i]]
  /\ UNCHANGED <<now, phase, notes, filtered_notes, selected, search_query,
                 input_buffer, tags_buffer, should_quit, focus, all_tags,
                 visible_tags, selected_tag, active_tag_filters, showing_summary,
                 summary_content, summary_stale, preview_tab, preview_scroll>>

\* 's', llm::summarize_note is called and returns Err
Command_s_LlmErr ==
  /\ Input("summarize")
  /\ UNCHANGED raw_mode
  /\ UNCHANGED <<suggestVars, call, status_expires, version_cache>>
  /\ InMode("Command")
  /\ selected_note(notes, filtered_notes, selected) # Nothing
  /\ cache_hit = Nothing
  /\ mode' = "Normal"
  /\ summary_force_regen' = force_after_arming
  /\ status_message' = "SummaryError"
  /\ UNCHANGED <<db, now, phase, notes, filtered_notes, selected, search_query,
                 input_buffer, tags_buffer, should_quit, focus, all_tags,
                 visible_tags, selected_tag, active_tag_filters, showing_summary,
                 summary_content, summary_stale, preview_tab, preview_scroll>>

\* ---- handle_add_note_name ----

AddNoteName_Esc ==
  /\ Input("add")
  /\ UNCHANGED raw_mode
  /\ UNCHANGED <<suggestVars, call, status_expires, version_cache>>
  /\ InMode("AddNoteName")
  /\ mode' = "Normal"
  /\ UNCHANGED <<db, now, phase, notes, filtered_notes, selected, search_query,
                 input_buffer, tags_buffer, status_message, should_quit, focus,
                 all_tags, visible_tags, selected_tag, active_tag_filters,
                 showing_summary, summary_content, summary_stale,
                 summary_force_regen, preview_tab, preview_scroll>>

\* Enter: validate the trimmed name, look it up, advance to AddNoteTags
AddNoteName_Enter ==
  /\ Input("add")
  /\ UNCHANGED raw_mode
  /\ UNCHANGED <<suggestVars, call, status_expires, version_cache>>
  /\ InMode("AddNoteName")
  /\ LET name == trim(input_buffer) IN
     IF validate_name(name) # "ok"
        THEN /\ status_message' = "InvalidName"
             /\ UNCHANGED <<tags_buffer, mode>>
     ELSE IF get_note(db, name) # 0
        THEN /\ status_message' = "NoteAlreadyExists"
             /\ UNCHANGED <<tags_buffer, mode>>
     ELSE /\ tags_buffer' = <<>>
          /\ mode' = "AddNoteTags"
          /\ UNCHANGED status_message
  /\ UNCHANGED <<db, now, phase, notes, filtered_notes, selected, search_query,
                 input_buffer, should_quit, focus, all_tags, visible_tags,
                 selected_tag, active_tag_filters, showing_summary, summary_content,
                 summary_stale, summary_force_regen, preview_tab, preview_scroll>>

\* Enter with a valid name, and get_note of the duplicate check fails
AddNoteName_Enter_StorageErr ==
  /\ Input("add")
  /\ InMode("AddNoteName")
  /\ validate_name(trim(input_buffer)) = "ok"
  /\ RunLoopErr(db)

AddNoteName_Backspace ==
  /\ Input("add")
  /\ UNCHANGED raw_mode
  /\ UNCHANGED <<suggestVars, call, status_expires, version_cache>>
  /\ InMode("AddNoteName")
  /\ input_buffer' = pop(input_buffer)
  /\ UNCHANGED <<db, now, phase, notes, filtered_notes, selected, mode, search_query,
                 tags_buffer, status_message, should_quit, focus, all_tags,
                 visible_tags, selected_tag, active_tag_filters, showing_summary,
                 summary_content, summary_stale, summary_force_regen, preview_tab,
                 preview_scroll>>

AddNoteName_Char ==
  /\ Input("add")
  /\ UNCHANGED raw_mode
  /\ UNCHANGED <<suggestVars, call, status_expires, version_cache>>
  /\ InMode("AddNoteName")
  /\ \E c \in Chars(NameTexts) :
       /\ CanType(input_buffer, c, NameTexts)
       /\ input_buffer' = Append(input_buffer, c)
  /\ UNCHANGED <<db, now, phase, notes, filtered_notes, selected, mode, search_query,
                 tags_buffer, status_message, should_quit, focus, all_tags,
                 visible_tags, selected_tag, active_tag_filters, showing_summary,
                 summary_content, summary_stale, summary_force_regen, preview_tab,
                 preview_scroll>>

\* ---- handle_add_note_tags ----

AddNoteTags_Esc ==
  /\ Input("add")
  /\ UNCHANGED raw_mode
  /\ UNCHANGED <<suggestVars, call, status_expires, version_cache>>
  /\ InMode("AddNoteTags")
  /\ mode' = "Normal"
  /\ UNCHANGED <<db, now, phase, notes, filtered_notes, selected, search_query,
                 input_buffer, tags_buffer, status_message, should_quit, focus,
                 all_tags, visible_tags, selected_tag, active_tag_filters,
                 showing_summary, summary_content, summary_stale,
                 summary_force_regen, preview_tab, preview_scroll>>

\* the Vec<String> of tags_buffer passes the check guarding the editor call
tags_accepted(tags) == tags = <<>> \/ validate_tags(tags) = "ok"

\* Enter with tags that validate_tags rejects
AddNoteTags_Enter_Invalid ==
  /\ Input("add")
  /\ UNCHANGED raw_mode
  /\ UNCHANGED <<suggestVars, call, status_expires, version_cache>>
  /\ InMode("AddNoteTags")
  /\ ~tags_accepted(split_whitespace(tags_buffer))
  /\ status_message' = "InvalidTags"
  /\ UNCHANGED <<db, now, phase, notes, filtered_notes, selected, mode, search_query,
                 input_buffer, tags_buffer, should_quit, focus, all_tags,
                 visible_tags, selected_tag, active_tag_filters, showing_summary,
                 summary_content, summary_stale, summary_force_regen, preview_tab,
                 preview_scroll>>

\* Enter with accepted tags: the terminal is suspended and the editor starts
AddNoteTags_Enter_Launch ==
  /\ Input("add")
  /\ UNCHANGED <<suggestVars, call, status_expires, version_cache>>
  /\ InMode("AddNoteTags")
  /\ tags_accepted(split_whitespace(tags_buffer))
  /\ suspend_terminal
  /\ phase' = "editor"
  /\ UNCHANGED <<db, now, notes, filtered_notes, selected, mode, search_query,
                 input_buffer, tags_buffer, status_message, should_quit, focus,
                 all_tags, visible_tags, selected_tag, active_tag_filters,
                 showing_summary, summary_content, summary_stale,
                 summary_force_regen, preview_tab, preview_scroll>>

\* Enter, get_user_input returns Ok(contents): insert_note, refresh_notes
AddNoteTags_Enter_Ok ==
  /\ Input("add")
  /\ UNCHANGED <<suggestVars, call, status_expires, version_cache>>
  /\ "editor" \in profile
  /\ InEditor("AddNoteTags")
  /\ resume_terminal
  /\ phase' = "tui"
  /\ Len(db) < MaxNotes
  /\ \E contents \in EditorTexts :
       LET d == insert_note(db, now, input_buffer, contents, split_whitespace(tags_buffer))
       IN /\ db' = d
          /\ RefreshNotes(d)
  /\ status_message' = "NoteCreated"
  /\ mode' = "Normal"
  /\ UNCHANGED <<now, search_query, input_buffer, tags_buffer, should_quit,
                 focus, active_tag_filters, showing_summary, summary_content,
                 summary_stale, summary_force_regen, preview_tab, preview_scroll>>

\* Enter, get_user_input returns Ok(contents) and a Storage call fails:
\* insert_note, or list_notes in refresh_notes after it
AddNoteTags_Enter_StorageErr ==
  /\ Input("add")
  /\ "editor" \in profile
  /\ InEditor("AddNoteTags")
  /\ \E contents \in EditorTexts, failing \in {"insert_note", "list_notes"} :
       /\ Len(db) < MaxNotes
       /\ RunLoopErr(IF failing = "insert_note" THEN db
                     ELSE insert_note(db, now, input_buffer, contents,
                                      split_whitespace(tags_buffer)))

\* Enter, get_user_input returns Err
AddNoteTags_Enter_EditorErr ==
  /\ Input("add")
  /\ UNCHANGED <<suggestVars, call, status_expires, version_cache>>
  /\ InEditor("AddNoteTags")
  /\ resume_terminal
  /\ phase' = "tui"
  /\ status_message' = "Error"
  /\ mode' = "Normal"
  /\ UNCHANGED <<db, now, notes, filtered_notes, selected, search_query,
                 input_buffer, tags_buffer, should_quit, focus, all_tags,
                 visible_tags, selected_tag, active_tag_filters, showing_summary,
                 summary_content, summary_stale, summary_force_regen, preview_tab,
                 preview_scroll>>

AddNoteTags_Backspace ==
  /\ Input("add")
  /\ UNCHANGED raw_mode
  /\ UNCHANGED <<suggestVars, call, status_expires, version_cache>>
  /\ InMode("AddNoteTags")
  /\ tags_buffer' = pop(tags_buffer)
  /\ UNCHANGED <<db, now, phase, notes, filtered_notes, selected, mode, search_query,
                 input_buffer, status_message, should_quit, focus, all_tags,
                 visible_tags, selected_tag, active_tag_filters, showing_summary,
                 summary_content, summary_stale, summary_force_regen, preview_tab,
                 preview_scroll>>

AddNoteTags_Char ==
  /\ Input("add")
  /\ UNCHANGED raw_mode
  /\ UNCHANGED <<suggestVars, call, status_expires, version_cache>>
  /\ InMode("AddNoteTags")
  /\ \E c \in Chars(TagTexts) :
       /\ CanType(tags_buffer, c, TagTexts)
       /\ tags_buffer' = Append(tags_buffer, c)
  /\ UNCHANGED <<db, now, phase, notes, filtered_notes, selected, mode, search_query,
                 input_buffer, status_message, should_quit, focus, all_tags,
                 visible_tags, selected_tag, active_tag_filters, showing_summary,
                 summary_content, summary_stale, summary_force_regen, preview_tab,
                 preview_scroll>>

\* ---- handle_edit_tags ----

InEditTags == KeyPress /\ ~InPreview /\ mode \in {"EditTagsAdd", "EditTagsRemove"}

EditTags_Esc ==
  /\ Input("edit")
  /\ UNCHANGED raw_mode
  /\ UNCHANGED <<suggestVars, call, status_expires, version_cache>>
  /\ InEditTags
  /\ mode' = "Normal"
  /\ UNCHANGED <<db, now, phase, notes, filtered_notes, selected, search_query,
                 input_buffer, tags_buffer, status_message, should_quit, focus,
                 all_tags, visible_tags, selected_tag, active_tag_filters,
                 showing_summary, summary_content, summary_stale,
                 summary_force_regen, preview_tab, preview_scroll>>

EditTags_Tab ==
  /\ Input("edit")
  /\ UNCHANGED raw_mode
  /\ UNCHANGED <<suggestVars, call, status_expires, version_cache>>
  /\ InEditTags
  /\ mode' = IF mode = "EditTagsAdd" THEN "EditTagsRemove" ELSE "EditTagsAdd"
  /\ UNCHANGED <<db, now, phase, notes, filtered_notes, selected, search_query,
                 input_buffer, tags_buffer, status_message, should_quit, focus,
                 all_tags, visible_tags, selected_tag, active_tag_filters,
                 showing_summary, summary_content, summary_stale,
                 summary_force_regen, preview_tab, preview_scroll>>

\* Enter on one of the early returns: no note selected, no tags, invalid tags,
\* note not found by title
EditTags_Enter_Rejected ==
  /\ Input("edit")
  /\ UNCHANGED raw_mode
  /\ UNCHANGED <<suggestVars, call, status_expires, version_cache>>
  /\ InEditTags
  /\ LET n == selected_note(notes, filtered_notes, selected)
         new_tags == split_whitespace(input_buffer)
     IN IF n = Nothing
           THEN status_message' = "NoNoteSelected" /\ mode' = "Normal"
        ELSE IF new_tags = <<>>
           THEN status_message' = "NoTagsProvided" /\ mode' = "Normal"
        ELSE IF validate_tags(new_tags) # "ok"
           THEN status_message' = "InvalidTags" /\ UNCHANGED mode
        ELSE /\ get_tags_and_id(db, Unwrap(n).title) = 0
             /\ status_message' = "NoteNotFound"
             /\ mode' = "Normal"
  /\ UNCHANGED <<db, now, phase, notes, filtered_notes, selected, search_query,
                 input_buffer, tags_buffer, should_quit, focus, all_tags,
                 visible_tags, selected_tag, active_tag_filters, showing_summary,
                 summary_content, summary_stale, summary_force_regen, preview_tab,
                 preview_scroll>>

\* Enter with valid tags: the row found by the selected note's title gets the
\* merged tag list, then refresh_notes
EditTags_Enter_Apply ==
  /\ Input("edit")
  /\ UNCHANGED raw_mode
  /\ UNCHANGED <<suggestVars, call, status_expires, version_cache>>
  /\ InEditTags
  /\ LET n == selected_note(notes, filtered_notes, selected)
         new_tags == split_whitespace(input_buffer)
     IN /\ n # Nothing
        /\ new_tags # <<>>
        /\ validate_tags(new_tags) = "ok"
        /\ get_tags_and_id(db, Unwrap(n).title) # 0
        /\ LET row == db[get_tags_and_id(db, Unwrap(n).title)]
               is_add == mode = "EditTagsAdd"
               d == update_tags(db, now, row.id,
                                IF is_add THEN add_tags(row.tags, new_tags)
                                          ELSE remove_tags(row.tags, new_tags))
           IN /\ db' = d
              /\ RefreshNotes(d)
              /\ status_message' = IF is_add THEN "TagsAdded" ELSE "TagsRemoved"
  /\ mode' = "Normal"
  /\ UNCHANGED <<now, phase, search_query, input_buffer, tags_buffer, should_quit,
                 focus, active_tag_filters, showing_summary, summary_content,
                 summary_stale, summary_force_regen, preview_tab, preview_scroll>>

\* Enter with valid tags and a Storage call fails: get_tags_and_id, or
\* update_tags, or list_notes in refresh_notes after it
EditTags_Enter_StorageErr ==
  /\ Input("edit")
  /\ InEditTags
  /\ LET n == selected_note(notes, filtered_notes, selected)
         new_tags == split_whitespace(input_buffer)
     IN /\ n # Nothing
        /\ new_tags # <<>>
        /\ validate_tags(new_tags) = "ok"
        /\ \E failing \in {"get_tags_and_id", "update_tags", "list_notes"} :
             IF failing = "list_notes"
                THEN /\ get_tags_and_id(db, Unwrap(n).title) # 0
                     /\ LET row == db[get_tags_and_id(db, Unwrap(n).title)]
                        IN RunLoopErr(update_tags(db, now, row.id,
                                        IF mode = "EditTagsAdd"
                                           THEN add_tags(row.tags, new_tags)
                                           ELSE remove_tags(row.tags, new_tags)))
                ELSE RunLoopErr(db)

EditTags_Backspace ==
  /\ Input("edit")
  /\ UNCHANGED raw_mode
  /\ UNCHANGED <<suggestVars, call, status_expires, version_cache>>
  /\ InEditTags
  /\ input_buffer' = pop(input_buffer)
  /\ UNCHANGED <<db, now, phase, notes, filtered_notes, selected, mode, search_query,
                 tags_buffer, status_message, should_quit, focus, all_tags,
                 visible_tags, selected_tag, active_tag_filters, showing_summary,
                 summary_content, summary_stale, summary_force_regen, preview_tab,
                 preview_scroll>>

EditTags_Char ==
  /\ Input("edit")
  /\ UNCHANGED raw_mode
  /\ UNCHANGED <<suggestVars, call, status_expires, version_cache>>
  /\ InEditTags
  /\ \E c \in Chars(EditTagTexts) :
       /\ CanType(input_buffer, c, EditTagTexts)
       /\ input_buffer' = Append(input_buffer, c)
  /\ UNCHANGED <<db, now, phase, notes, filtered_notes, selected, mode, search_query,
                 tags_buffer, status_message, should_quit, focus, all_tags,
                 visible_tags, selected_tag, active_tag_filters, showing_summary,
                 summary_content, summary_stale, summary_force_regen, preview_tab,
                 preview_scroll>>

\* ---- the tag suggestions of the tag prompt ----

\* update_tag_suggestions(&tags_buffer), called on the tag prompt of add-note
UpdateTagSuggestions ==
  /\ Input("suggest")
  /\ UNCHANGED <<raw_mode, call, status_expires, version_cache>>
  /\ InMode("AddNoteTags")
  /\ LET r == update_tag_suggestions(all_tags, tags_buffer, selected_suggestion) IN
     /\ tag_suggestions' = r.tag_suggestions
     /\ selected_suggestion' = r.selected_suggestion
  /\ UNCHANGED <<db, now, phase, notes, filtered_notes, selected, mode, search_query,
                 input_buffer, tags_buffer, status_message, should_quit, focus,
                 all_tags, visible_tags, selected_tag, active_tag_filters,
                 showing_summary, summary_content, summary_stale,
                 summary_force_regen, preview_tab, preview_scroll>>

\* accept_tag_suggestion(&mut tags_buffer)
AcceptTagSuggestion ==
  /\ Input("suggest")
  /\ UNCHANGED <<raw_mode, call, status_expires, version_cache>>
  /\ InMode("AddNoteTags")
  /\ LET r == accept_tag_suggestion(tag_suggestions, selected_suggestion, tags_buffer) IN
     /\ tags_buffer' = r.buffer
     /\ tag_suggestions' = r.tag_suggestions
     /\ selected_suggestion' = r.selected_suggestion
  /\ UNCHANGED <<db, now, phase, notes, filtered_notes, selected, mode, search_query,
                 input_buffer, status_message, should_quit, focus, all_tags,
                 visible_tags, selected_tag, active_tag_filters, showing_summary,
                 summary_content, summary_stale, summary_force_regen, preview_tab,
                 preview_scroll>>

\* move_suggestion_selection(delta), one step down or up
MoveSuggestionSelection ==
  /\ Input("suggest")
  /\ UNCHANGED <<raw_mode, call, status_expires, version_cache>>
  /\ InMode("AddNoteTags")
  /\ \E delta \in {1, -1} :
       selected_suggestion' =
         move_suggestion_selection(selected_suggestion, Len(tag_suggestions), delta)
  /\ UNCHANGED <<db, now, phase, notes, filtered_notes, selected, mode, search_query,
                 input_buffer, tags_buffer, status_message, should_quit, focus,
                 all_tags, visible_tags, selected_tag, active_tag_filters,
                 showing_summary, summary_content, summary_stale,
                 summary_force_regen, preview_tab, preview_scroll, tag_suggestions>>

\* ---- calls of the pure functions ----

\* draw_preview renders a text: markdown::render_markdown(content)
Call_render_markdown ==
  /\ Input("render")
  /\ \E input \in Docs :
       call' = [fn |-> "render_markdown", input |-> input,
                result |-> render_markdown(input)]
  /\ UNCHANGED <<db, now, phase, raw_mode, suggestVars, status_expires, version_cache>>
  /\ UNCHANGED appVars

\* check_for_updates_inner compares two versions: version_is_newer(latest, current)
Call_version_is_newer ==
  /\ Input("version")
  /\ \E latest \in Versions, current \in Versions :
       call' = [fn |-> "version_is_newer", latest |-> latest, current |-> current,
                result |-> version_is_newer(latest, current)]
  /\ UNCHANGED <<db, now, phase, raw_mode, suggestVars, status_expires, version_cache>>
  /\ UNCHANGED appVars

\* main, before it dispatches the command: check_for_updates_inner, which reads
\* and writes the version cache only. fetched is what fetch_latest_version
\* returns when it is called: Nothing for Err, or the version of the formula.
CheckForUpdates ==
  /\ Input("update")
  /\ phase = "shell"
  /\ \E fetched \in {Nothing, Some(CURRENT_VERSION), Some(<<"0", ".", "2", ".", "0">>)} :
       LET Result(r) == call' = [fn |-> "check_for_updates_inner", result |-> r] IN
       IF version_cache # Nothing /\ Unwrap(version_cache).fresh
          THEN LET cache == Unwrap(version_cache) IN
               IF /\ version_is_newer(cache.latest_version, CURRENT_VERSION)
                  /\ cache.notified_version # Some(cache.latest_version)
                  THEN /\ version_cache' =
                            Some([cache EXCEPT !.notified_version = Some(cache.latest_version)])
                       /\ Result(Some(cache.latest_version))
                  ELSE /\ UNCHANGED version_cache
                       /\ Result(Nothing)
       ELSE IF fetched = Nothing
          THEN /\ UNCHANGED version_cache
               /\ Result(Nothing)
       ELSE LET latest == Unwrap(fetched)
                should_notify == version_is_newer(latest, CURRENT_VERSION)
            IN /\ version_cache' =
                    Some([latest_version |-> latest, fresh |-> TRUE,
                          notified_version |-> IF should_notify THEN Some(latest) ELSE Nothing])
               /\ Result(IF should_notify THEN Some(latest) ELSE Nothing)
  /\ UNCHANGED <<db, now, phase, raw_mode, suggestVars, status_expires>>
  /\ UNCHANGED appVars

\* CACHE_DURATION_SECS have passed since the cache was checked: its age is no
\* longer below the cache duration
CacheAges ==
  /\ Input("update")
  /\ version_cache # Nothing
  /\ Unwrap(version_cache).fresh
  /\ version_cache' = Some([Unwrap(version_cache) EXCEPT !.fresh = FALSE])
  /\ UNCHANGED <<db, now, phase, raw_mode, suggestVars, status_expires, call>>
  /\ UNCHANGED appVars

\* ------------------------------------------------------------------------
\* Specification
\* ------------------------------------------------------------------------

Next ==
  \/ Tick
  \/ CliWrite \/ CliAdd \/ CliEditTag \/ CliOpen \/ CliAppend
  \/ StartSession \/ RunLoopExit \/ Elapse \/ RunLoopClearExpired
  \/ Normal_q \/ Normal_j \/ Normal_k \/ Normal_Slash \/ Normal_Colon
  \/ Normal_Esc \/ Normal_Tab
  \/ Preview_q \/ Preview_j \/ Preview_k \/ Preview_Tab \/ Preview_Esc \/ Preview_Colon
  \/ TagBrowse_q \/ TagBrowse_j \/ TagBrowse_k \/ TagBrowse_Enter \/ TagBrowse_Esc
  \/ TagBrowse_Tab \/ TagBrowse_Colon
  \/ Search_Esc \/ Search_Enter \/ Search_Backspace \/ Search_Char
  \/ Command_Esc \/ Command_o_NoNote \/ Command_o_Launch \/ Command_o_EditorErr \/ Command_o_Unchanged
  \/ Command_o_Changed \/ Command_a \/ Command_t
  \/ Command_s_NoNote \/ Command_s_Cached \/ Command_s_Generated \/ Command_s_LlmErr
  \/ AddNoteName_Esc \/ AddNoteName_Enter \/ AddNoteName_Backspace \/ AddNoteName_Char
  \/ AddNoteTags_Esc \/ AddNoteTags_Enter_Invalid \/ AddNoteTags_Enter_Launch
  \/ AddNoteTags_Enter_Ok
  \/ AddNoteTags_Enter_EditorErr \/ AddNoteTags_Backspace \/ AddNoteTags_Char
  \/ EditTags_Esc \/ EditTags_Tab \/ EditTags_Enter_Rejected \/ EditTags_Enter_Apply
  \/ EditTags_Backspace \/ EditTags_Char
  \/ Command_o_StorageErr \/ Command_s_StorageErr \/ AddNoteName_Enter_StorageErr
  \/ AddNoteTags_Enter_StorageErr \/ EditTags_Enter_StorageErr
  \/ UpdateTagSuggestions \/ AcceptTagSuggestion \/ MoveSuggestionSelection
  \/ Call_render_markdown \/ Call_version_is_newer
  \/ CheckForUpdates \/ CacheAges

Spec == Init /\ [][Next]_vars

\* ------------------------------------------------------------------------
\* Properties
\* ------------------------------------------------------------------------

\* the summary-display state is absent
SummaryAbsent(showing, content, stale, force) ==
  ~showing /\ content = None /\ ~stale /\ ~force

\* q occurs in h as a contiguous run
IsSubstring(q, h) == \E i \in 1..(Len(h) + 1), j \in 0..Len(h) : SubSeq(h, i, j) = q

\* the snapshot note at 0-based index i passes the current tag filters and query
Visible(i) ==
  LET n == notes[i + 1]
      q == to_lowercase(search_query)
  IN /\ \/ active_tag_filters = <<>>
        \/ \E k \in 1..Len(n.tags), a \in 1..Len(active_tag_filters) :
             n.tags[k] = active_tag_filters[a]
     /\ \/ search_query = <<>>
        \/ IsSubstring(q, to_lowercase(n.title))
        \/ IsSubstring(q, to_lowercase(n.note))
        \/ \E k \in 1..Len(n.tags) : IsSubstring(q, to_lowercase(n.tags[k]))

\* the tags of the notes of the filtered list
FilteredTagNames ==
  UNION {{notes[filtered_notes[k] + 1].tags[t] :
            t \in 1..Len(notes[filtered_notes[k] + 1].tags)} : k \in 1..Len(filtered_notes)}

\* the notes of the filtered list that carry the tag
Carriers(name) ==
  {k \in 1..Len(filtered_notes) : InSeq(name, notes[filtered_notes[k] + 1].tags)}

\* C1: the selection cursor is a valid index into the filtered list, and 0 when
\* the list is empty; move_selection with any delta stays inside [0, len) and
\* moving by +1 then by -1 returns to the same index.
C1_SelectionValid ==
  LET len == Len(filtered_notes) IN
  /\ IF len = 0 THEN selected = 0 ELSE selected \in 0..(len - 1)
  /\ \A delta \in (-MaxDelta)..MaxDelta :
       IF len = 0 THEN move_selection(selected, len, delta) = 0
                  ELSE move_selection(selected, len, delta) \in 0..(len - 1)
  /\ move_selection(move_selection(selected, len, 1), len, -1) = selected

\* C1 witness: the cursor has moved to the last of at least two filtered notes,
\* from where +1 wraps to 0
C1_Witness ==
  /\ phase = "tui"
  /\ Len(filtered_notes) >= 2
  /\ selected = Len(filtered_notes) - 1
  /\ move_selection(selected, Len(filtered_notes), 1) = 0

\* C2: filtered_notes is exactly the ascending list of the snapshot indices that
\* pass the tag filters (any active tag, exact equality) and the lower-cased
\* query (substring of title, body or a tag); with no query and no filter it is
\* 0..n-1.
C2_FilterExact ==
  /\ \A k \in 1..Len(filtered_notes) :
       filtered_notes[k] \in 0..(Len(notes) - 1) /\ Visible(filtered_notes[k])
  /\ \A i \in 0..(Len(notes) - 1) :
       Visible(i) => \E k \in 1..Len(filtered_notes) : filtered_notes[k] = i
  /\ \A k, l \in 1..Len(filtered_notes) : k < l => filtered_notes[k] < filtered_notes[l]
  /\ (search_query = <<>> /\ active_tag_filters = <<>>)
       => filtered_notes = [k \in 1..Len(notes) |-> k - 1]

\* C2 witness: a tag filter and a query are both active and together keep some
\* notes and drop others
C2_Witness ==
  /\ phase = "tui"
  /\ active_tag_filters # <<>>
  /\ search_query # <<>>
  /\ filtered_notes # <<>>
  /\ Len(filtered_notes) < Len(notes)

\* the state of the faceted-filter scenario: notes alpha[x,y] and beta[y], tag
\* filter y, no query
ScenarioA ==
  /\ Len(notes) = 2
  /\ \E i, j \in 1..2 :
       /\ notes[i].title = Alpha /\ notes[i].tags = << <<"x">>, <<"y">> >>
       /\ notes[j].title = Beta /\ notes[j].tags = << <<"y">> >>
  /\ active_tag_filters = << <<"y">> >>
  /\ search_query = <<>>

\* C3: visible_tags holds exactly the tag names of the notes of the filtered
\* list, each once, ordered by count descending and then name ascending; in the
\* scenario alpha[x,y], beta[y] with filter y both notes are listed and the
\* facets are (y,2), (x,1).
C3_FacetsOfFiltered ==
  /\ {visible_tags[k].name : k \in 1..Len(visible_tags)} = FilteredTagNames
  /\ \A k, l \in 1..Len(visible_tags) :
       k < l => /\ visible_tags[k].name # visible_tags[l].name
                /\ \/ visible_tags[k].count > visible_tags[l].count
                   \/ /\ visible_tags[k].count = visible_tags[l].count
                      /\ StrLess(visible_tags[k].name, visible_tags[l].name)
  /\ ScenarioA =>
       /\ filtered_notes = <<0, 1>>
       /\ visible_tags = << [name |-> <<"y">>, count |-> 2], [name |-> <<"x">>, count |-> 1] >>

\* C3 witness: the scenario has been reached by activating the tag y
C3_Witness == phase = "tui" /\ ScenarioA /\ mode = "TagBrowse"

\* C4: the count of every visible tag is the number of filtered notes that carry
\* the tag, and so is at most the length of the filtered list.
C4_CountIsCarriers ==
  \A k \in 1..Len(visible_tags) :
    /\ visible_tags[k].count = Cardinality(Carriers(visible_tags[k].name))
    /\ visible_tags[k].count <= Len(filtered_notes)

\* C5: every visible tag is also in all_tags, with a count that is at most its
\* count there.
C5_FacetsWithinAllTags ==
  \A k \in 1..Len(visible_tags) :
    \E a \in 1..Len(all_tags) :
      /\ all_tags[a].name = visible_tags[k].name
      /\ visible_tags[k].count <= all_tags[a].count

\* C5 witness: after a refresh, a filter shows a tag with a smaller count than
\* the snapshot has
C5_Witness ==
  /\ phase = "tui"
  /\ \E k \in 1..Len(visible_tags), a \in 1..Len(all_tags) :
       /\ all_tags[a].name = visible_tags[k].name
       /\ visible_tags[k].count < all_tags[a].count

\* C6: no stored tag list holds the same tag twice.
C6_NoDuplicateTags ==
  \A r \in 1..Len(db) :
    \A k, l \in 1..Len(db[r].tags) : k # l => db[r].tags[k] # db[r].tags[l]

\* C7: no two stored notes have the same title.
C7_TitlesUnique ==
  \A r, q \in 1..Len(db) : r # q => db[r].title # db[q].title

\* the constraints on a stored title and on a stored tag
NameOk(name) ==
  /\ name # <<>>
  /\ \A i \in 1..Len(name) : name[i] \notin {"/", "\\"}
  /\ Len(name) <= MaxNameLen
TagOk(tag) ==
  /\ tag # <<>>
  /\ \A i \in 1..Len(tag) : tag[i] # " "
  /\ Len(tag) <= MaxTagLen

\* C8: every stored title and every stored tag satisfies the validation
\* constraints, whichever path wrote it.
C8_StoredValuesValid ==
  \A r \in 1..Len(db) :
    /\ NameOk(db[r].title)
    /\ \A k \in 1..Len(db[r].tags) : TagOk(db[r].tags[k])

\* the input of the current prompt violates a validation constraint: a name
\* that is empty, has a path separator, is too long or is a stored title; a tag
\* list that is empty (edit-tags) or has a tag that is empty, has a space or is
\* too long
InputViolates ==
  LET tags == split_whitespace(IF mode = "AddNoteTags" THEN tags_buffer ELSE input_buffer) IN
  CASE mode = "AddNoteName" ->
         ~NameOk(input_buffer) \/ \E r \in 1..Len(db) : db[r].title = input_buffer
    [] mode = "AddNoteTags" -> \E k \in 1..Len(tags) : ~TagOk(tags[k])
    [] mode \in {"EditTagsAdd", "EditTagsRemove"} ->
         /\ selected_note(notes, filtered_notes, selected) # Nothing
         /\ tags = <<>> \/ \E k \in 1..Len(tags) : ~TagOk(tags[k])
    [] OTHER -> FALSE

\* Enter is dispatched to one of the four prompts
PromptEnter ==
  \/ AddNoteName_Enter
  \/ AddNoteTags_Enter_Invalid \/ AddNoteTags_Enter_Launch
  \/ EditTags_Enter_Rejected \/ EditTags_Enter_Apply

\* C9: Enter on a prompt whose input violates a validation constraint sets a
\* status message, keeps the mode and changes neither storage nor the snapshot.
C9_InvalidInputKeepsMode ==
  [][(PromptEnter /\ InputViolates)
       => /\ status_message' # None
          /\ mode' = mode
          /\ db' = db
          /\ notes' = notes]_vars

\* id of the note selected_note designates, 0 when there is none
SelectedId(ns, filtered, sel) ==
  IF selected_note(ns, filtered, sel) = Nothing THEN 0
  ELSE Unwrap(selected_note(ns, filtered, sel)).id

\* C10: whenever a dispatched key makes selected_note designate a different
\* note, the summary-display state is reset to absent.
C10_SummaryResetOnSelectionChange ==
  [][(/\ phase = "tui" /\ phase' = "tui"
      /\ SelectedId(notes', filtered_notes', selected') # SelectedId(notes, filtered_notes, selected))
       => SummaryAbsent(showing_summary', summary_content', summary_stale',
                        summary_force_regen')]_vars

\* the stored summary of the selected note: Some([text, stale]) or Nothing
StoredSummary == get_summary(db, SelectedId(notes, filtered_notes, selected))

\* the key 's' is dispatched in Command mode and no Storage call fails
Summarize ==
  Command_s_NoNote \/ Command_s_Cached \/ Command_s_Generated \/ Command_s_LlmErr

\* the dispatched key calls llm::summarize_note
SummarizerCalled ==
  \/ Command_s_Generated
  \/ Command_s_LlmErr
  \/ Command_s_StorageErr /\ force_after_arming

\* C11: a summarize action on a selected note whose stored summary is present
\* and fresh never calls the Summarizer; it displays the cached text with no
\* stale warning.
C11_FreshCacheNeverCalls ==
  [][(/\ Summarize \/ Command_s_StorageErr
      /\ StoredSummary # Nothing
      /\ ~Unwrap(StoredSummary).stale)
       => /\ ~SummarizerCalled
          /\ Summarize => /\ showing_summary'
                          /\ summary_content' = Unwrap(StoredSummary).text
                          /\ ~summary_stale'
                          /\ status_message' = None]_vars

C13_StaleUntilForcedRegen ==
  [][\A i \in 1..Len(db) :
       (db[i].summary # None /\ db[i].summary_stale)
         => \/ /\ i <= Len(db')
               /\ db'[i].id = db[i].id
               /\ db'[i].summary # None
               /\ db'[i].summary_stale
            \/ /\ Command_s_Generated
               /\ force_after_arming
               /\ SelectedId(notes, filtered_notes, selected) = db[i].id]_vars

\* C13 witness: an unforced summarize has shown a stale summary, which is still
\* stale in storage
C13_Witness ==
  /\ phase = "tui"
  /\ status_message = "SummaryOutdated"
  /\ showing_summary /\ summary_stale /\ ~summary_force_regen
  /\ StoredSummary # Nothing
  /\ Unwrap(StoredSummary).stale

\* C14: every step that changes the body of a note that has a cached summary
\* leaves that summary stale in storage, and the session's open-and-save leaves
\* no displayed summary.
C14_BodyChangeMarksStale ==
  [][/\ \A i \in 1..Len(db) :
          (db'[i].note # db[i].note /\ db[i].summary # None)
            => db'[i].summary # None /\ db'[i].summary_stale
     /\ Command_o_Changed
          => SummaryAbsent(showing_summary', summary_content', summary_stale',
                           summary_force_regen')]_vars

\* C15: the stale flag is never true without a cached summary, in storage and
\* in the session.
C15_StaleOnlyWithSummary ==
  /\ \A i \in 1..Len(db) : db[i].summary_stale => db[i].summary # None
  /\ summary_stale => summary_content # None

\* C16: a failed Summarizer call leaves storage (summary text and stale flag
\* included) and the snapshot as they were and sets the error status message.
C16_SummarizerErrorKeepsCache ==
  [][Command_s_LlmErr
       => /\ db' = db
          /\ notes' = notes
          /\ status_message' = "SummaryError"]_vars

\* C16 witness: a forced regeneration has failed; the stale summary is still
\* stored and displayed
C16_Witness ==
  /\ phase = "tui"
  /\ status_message = "SummaryError"
  /\ summary_force_regen
  /\ StoredSummary # Nothing
  /\ Unwrap(StoredSummary).stale
  /\ summary_content = Unwrap(StoredSummary).text

\* a Storage call fails while a key is dispatched
StorageFailure ==
  \/ Command_o_StorageErr \/ Command_s_StorageErr \/ AddNoteName_Enter_StorageErr
  \/ AddNoteTags_Enter_StorageErr \/ EditTags_Enter_StorageErr

\* C17: when a Storage call fails while a key is dispatched, the session goes
\* on: a status message is set and should_quit stays false.
C17_StorageFailureNotFatal ==
  [][StorageFailure
       => /\ phase' = "tui"
          /\ status_message' # None
          /\ ~should_quit']_vars

\* C18: a failing Storage step of open-and-save, add-note or tag edit leaves
\* storage as it was before the action, and the snapshot too while the session
\* lasts.
C18_StorageFailureNoPartialEffect ==
  [][(Command_o_StorageErr \/ AddNoteTags_Enter_StorageErr \/ EditTags_Enter_StorageErr)
       => /\ db' = db
          /\ phase' = "tui" => notes' = notes]_vars

\* C19: when the editor fails during Command 'o' or AddNoteTags Enter, storage,
\* the snapshot and the filtered list are unchanged and the status message
\* carries the error.
C19_EditorErrorNoMutation ==
  [][(Command_o_EditorErr \/ AddNoteTags_Enter_EditorErr)
       => /\ db' = db
          /\ notes' = notes
          /\ filtered_notes' = filtered_notes
          /\ status_message' = "Error"]_vars

\* C19 witness: the editor has failed in the add-note flow and nothing is stored
C19_Witness ==
  /\ phase = "tui"
  /\ status_message = "Error"
  /\ input_buffer # <<>>
  /\ db = <<>>

\* C20: the terminal is in raw mode on the alternate screen whenever the session
\* is about to draw a frame, and is not while an editor runs or no session runs.
C20_TerminalPaired ==
  /\ phase = "tui" => raw_mode
  /\ phase \in {"editor", "shell"} => ~raw_mode

\* C20 witness: the editor started by 'o' has failed and the session is back in
\* raw mode
C20_Witness ==
  /\ phase = "tui"
  /\ raw_mode
  /\ status_message = "Error"
  /\ notes # <<>>
  /\ mode = "Normal"

\* ------------------------------------------------------------------------
\* Snapshot refresh, tag edits
\* ------------------------------------------------------------------------

\* a key handler of the session has stored a change of the notes: a new note,
\* a changed body, a changed tag list
StoredMutation == AddNoteTags_Enter_Ok \/ Command_o_Changed \/ EditTags_Enter_Apply

StoredTags(d, id) == d[CHOOSE i \in 1..Len(d) : d[i].id = id].tags

\* C22: a tag edit is an idempotent set operation on the selected note's tag
\* list. EditTagsAdd with tags T keeps the existing list as a prefix and leaves
\* every tag of T in the list exactly once; EditTagsRemove with T leaves
\* exactly the tags that are not in T, in their order; doing the same edit
\* again on the result changes nothing.
C22_TagEditIdempotent ==
  [][EditTags_Enter_Apply =>
       LET id == SelectedId(notes, filtered_notes, selected)
           T == split_whitespace(input_buffer)
           old == StoredTags(db, id)
           new == StoredTags(db', id)
       IN IF mode = "EditTagsAdd"
             THEN /\ IsPrefix(old, new)
                  /\ \A k \in 1..Len(T) : CountOf(new, T[k]) = 1
                  /\ \A k \in 1..Len(new) : InSeq(new[k], old) \/ InSeq(new[k], T)
                  /\ add_tags(new, T) = new
             ELSE /\ new = retain_not_in(old, T)
                  /\ \A k \in 1..Len(T) : CountOf(new, T[k]) = 0
                  /\ remove_tags(new, T) = new]_vars

\* ------------------------------------------------------------------------
\* Tag suggestions
\* ------------------------------------------------------------------------

\* the token the user is still typing: the characters after the last separator
TrailingPartial(buf) ==
  LET seps == {i \in 1..Len(buf) : IsSpace(buf[i])}
      last == IF seps = {} THEN 0 ELSE CHOOSE i \in seps : \A j \in seps : j <= i
  IN SubSeq(buf, last + 1, Len(buf))

\* the tokens the user has completed: those followed by a separator
CompletedTokens(buf) ==
  LET words == split_whitespace(buf)
  IN IF TrailingPartial(buf) = <<>> THEN words ELSE SubSeq(words, 1, Len(words) - 1)

\* C23: update_tag_suggestions yields at most 5 suggestions, each starting,
\* compared case-insensitively, with the buffer's trailing partial token, and
\* none when the trailing partial is empty; the suggestion cursor is always 0
\* or a valid index, and move_suggestion_selection moves it cyclically.
C23_SuggestionsMatchPartial ==
  /\ [](selected_suggestion = 0 \/ selected_suggestion < Len(tag_suggestions))
  /\ [][UpdateTagSuggestions =>
          LET partial == to_lowercase(TrailingPartial(tags_buffer)) IN
          /\ Len(tag_suggestions') <= 5
          /\ \A k \in 1..Len(tag_suggestions') :
               LET name == to_lowercase(tag_suggestions'[k])
               IN Len(partial) <= Len(name) /\ SubSeq(name, 1, Len(partial)) = partial
          /\ partial = <<>> => tag_suggestions' = <<>>]_vars
  /\ [][MoveSuggestionSelection /\ tag_suggestions # <<>> =>
          LET len == Len(tag_suggestions) IN
          \/ selected_suggestion' = (selected_suggestion + 1) % len
          \/ selected_suggestion' = (selected_suggestion + len - 1) % len]_vars

\* C24: after update_tag_suggestions no suggestion equals a token of the
\* buffer that the user has already completed (a token followed by a
\* separator), a token left by accept_tag_suggestion included.
C24_NoCompletedTokenSuggested ==
  [][UpdateTagSuggestions =>
       \A k \in 1..Len(tag_suggestions') :
         ~InSeq(tag_suggestions'[k], CompletedTokens(tags_buffer))]_vars

\* C25: accept_tag_suggestion on a non-empty suggestion list replaces only the
\* trailing partial token: the new buffer holds the completed tokens,
\* unchanged and in order, then the selected suggestion, then one space; the
\* suggestion list is cleared.
C25_AcceptKeepsCompletedTokens ==
  [][AcceptTagSuggestion /\ selected_suggestion < Len(tag_suggestions) =>
       /\ split_whitespace(tags_buffer') =
            Append(CompletedTokens(tags_buffer), tag_suggestions[selected_suggestion + 1])
       /\ tags_buffer' = trim_end(tags_buffer') \o <<" ">>
       /\ tag_suggestions' = <<>>]_vars

\* ------------------------------------------------------------------------
\* Markdown rendering, version comparison
\* ------------------------------------------------------------------------

\* the placeholder line: the text "(empty note)" in one span
IsPlaceholder(line) ==
  /\ Len(line) = 1
  /\ line[1].content = <<"(", "e", "m", "p", "t", "y", " ", "n", "o", "t", "e", ")">>

\* C26: render_markdown on the empty string and on a string of white space
\* only returns exactly one line, the placeholder line.
C26_BlankInputPlaceholder ==
  (/\ call.fn = "render_markdown"
   /\ \A i \in 1..Len(call.input.text) : call.input.text[i] \in {" ", "\t", "\n"})
    => /\ Len(call.result) = 1
       /\ IsPlaceholder(call.result[1])

\* the text " \t\n " has been rendered, as one line
C26_Witness ==
  /\ call.fn = "render_markdown"
  /\ call.input.text = <<" ", "\t", "\n", " ">>
  /\ Len(call.result) = 1

\* text is cell centred in a column: COL_WIDTH characters, the cell with
\* blanks on both sides whose numbers differ by at most one
Centred(text, cell) ==
  /\ Len(text) = COL_WIDTH
  /\ \E left \in 0..(COL_WIDTH - Len(cell)) :
       LET right == COL_WIDTH - Len(cell) - left IN
       /\ text = [i \in 1..left |-> " "] \o cell \o [i \in 1..right |-> " "]
       /\ right - left \in {-1, 0, 1}

\* line is one border over n columns of COL_WIDTH rules between the corners
IsBorder(line, left, joint, right, n) ==
  LET RECURSIVE Columns(_)
      Columns(k) == IF k = 0 THEN <<>>
                    ELSE IF k = 1 THEN [i \in 1..COL_WIDTH |-> "box_h"]
                    ELSE [i \in 1..COL_WIDTH |-> "box_h"] \o <<joint>> \o Columns(k - 1)
  IN /\ Len(line) = 1
     /\ line[1].content = <<left>> \o Columns(n) \o <<right>>

\* line is a row of the cells between vertical rules, every cell centred and
\* with the modifiers mods
IsRow(line, cells, mods) ==
  /\ Len(line) = 2 * Len(cells) + 1
  /\ \A i \in 1..Len(line) :
       IF i % 2 = 1 THEN line[i].content = <<"box_v">>
       ELSE /\ Centred(line[i].content, cells[i \div 2])
            /\ line[i].mods = mods

\* C27: a table with a header row and body rows renders as the top border,
\* the header row with every cell centred in the column width and bold, the
\* header-separator border, one line per body row with the cells centred and
\* unstyled, and the bottom border, every border over as many columns as the
\* header has (then the blank line that ends the block).
C27_TableGrid ==
  \A t \in Tables :
    (call.fn = "render_markdown" /\ call.input = TableDoc(t)) =>
      LET r == call.result
          n == Len(t.rows)
          cols == Len(t.head)
      IN /\ Len(r) = n + 5
         /\ IsBorder(r[1], "box_dr", "box_dh", "box_dl", cols)
         /\ IsRow(r[2], t.head, {"BOLD"})
         /\ IsBorder(r[3], "box_vr", "box_vh", "box_vl", cols)
         /\ \A i \in 1..n : IsRow(r[3 + i], t.rows[i], {}) /\ r[3 + i][2].fg = None
         /\ IsBorder(r[n + 4], "box_ur", "box_uh", "box_ul", cols)
         /\ r[n + 5] = <<>>

\* C28: version_is_newer(latest, current) on dotted numeric versions is the
\* strict order that compares component by component as numbers, a missing
\* component counting as 0: true exactly when latest is greater at the first
\* component that differs, false for equal versions, never true both ways.
C28_VersionOrdering ==
  LET Digits == {"0", "1", "2", "3", "4", "5", "6", "7", "8", "9"}
      DottedNumeric(v) ==
        \A k \in 1..Len(split(v, ".")) :
          LET p == split(v, ".")[k]
          IN p # <<>> /\ \A i \in 1..Len(p) : p[i] \in Digits
      RECURSIVE Significant(_)
      Significant(ds) ==
        IF Len(ds) > 1 /\ Head(ds) = "0" THEN Significant(Tail(ds)) ELSE ds
      \* the numbers written a and b: a < b
      NumLess(a, b) ==
        LET x == Significant(a)
            y == Significant(b)
        IN Len(x) < Len(y) \/ (Len(x) = Len(y) /\ StrLess(x, y))
      Part(v, k) == IF k <= Len(split(v, ".")) THEN split(v, ".")[k] ELSE <<"0">>
      Greater(a, b) ==
        \E k \in 1..(Len(a) + Len(b)) :
          /\ NumLess(Part(b, k), Part(a, k))
          /\ \A j \in 1..(k - 1) :
               ~NumLess(Part(a, j), Part(b, j)) /\ ~NumLess(Part(b, j), Part(a, j))
  IN (/\ call.fn = "version_is_newer"
      /\ DottedNumeric(call.latest)
      /\ DottedNumeric(call.current))
       => /\ call.result <=> Greater(call.latest, call.current)
          /\ call.latest = call.current => ~call.result
          /\ ~(call.result /\ version_is_newer(call.current, call.latest))

\* ------------------------------------------------------------------------
\* Tag filters
\* ------------------------------------------------------------------------

\* C29: in TagBrowse, Enter flips the membership in active_tag_filters of
\* exactly the tag under the cursor, leaves the other active filters as they
\* were, never leaves a tag twice in active_tag_filters, reapplies the filter
\* and sets the selection to 0; Esc empties active_tag_filters, reapplies the
\* filter and returns to Mode Normal with Focus NoteList.
C29_TagBrowseToggle ==
  /\ [][TagBrowse_Enter =>
          LET tag == visible_tags[selected_tag + 1].name IN
          /\ InSeq(tag, active_tag_filters') <=> ~InSeq(tag, active_tag_filters)
          /\ retain_not_in(active_tag_filters', <<tag>>)
               = retain_not_in(active_tag_filters, <<tag>>)
          /\ \A k \in 1..Len(active_tag_filters') :
               CountOf(active_tag_filters', active_tag_filters'[k]) = 1
          /\ filtered_notes' = FilterFrom(notes, 0, to_lowercase(search_query),
                                          active_tag_filters')
          /\ selected' = 0]_vars
  /\ [][TagBrowse_Esc =>
          /\ active_tag_filters' = <<>>
          /\ filtered_notes' = FilterFrom(notes, 0, to_lowercase(search_query), <<>>)
          /\ mode' = "Normal"
          /\ focus' = "NoteList"]_vars

\* Enter has added a second tag filter beside the first, in TagBrowse
C29_Witness ==
  /\ mode = "TagBrowse"
  /\ Len(active_tag_filters) = 2
  /\ active_tag_filters[1] # active_tag_filters[2]
  /\ selected = 0

\* C30: when Enter in TagBrowse activates a tag of the tag panel that is not
\* yet active, every note of the filtered list after the action was in the
\* filtered list before it.
C30_FilterNarrows ==
  [][(TagBrowse_Enter /\ ~InSeq(visible_tags[selected_tag + 1].name, active_tag_filters)) =>
       \A k \in 1..Len(filtered_notes') : InSeq(filtered_notes'[k], filtered_notes)]_vars

\* the snapshot indices, ascending, of the notes that carry one of the active
\* tags (all of them when no tag is active)
TagPermitted ==
  SelectSeq([k \in 1..Len(notes) |-> k - 1],
            LAMBDA i : \/ active_tag_filters = <<>>
                       \/ \E t \in 1..Len(notes[i + 1].tags) :
                            InSeq(notes[i + 1].tags[t], active_tag_filters))

\* C31: '/' in Normal enters Search with an empty query and the filter
\* reapplied; a typed character is appended and Backspace removes the last
\* character, each followed by a filter reapply with the selection at 0; Esc
\* returns to Normal with the query cleared and the filtered list equal to what
\* the tag filters alone permit; Enter returns to Normal leaving the query and
\* the filtered list unchanged.
C31_SearchTransitions ==
  [][ /\ Normal_Slash =>
           /\ mode' = "Search" /\ search_query' = <<>>
           /\ C2_FilterExact' /\ selected' = 0
      /\ Search_Char =>
           /\ mode' = "Search"
           /\ Len(search_query') = Len(search_query) + 1
           /\ SubSeq(search_query', 1, Len(search_query)) = search_query
           /\ C2_FilterExact' /\ selected' = 0
      /\ Search_Backspace =>
           /\ mode' = "Search"
           /\ search_query # <<>> => search_query = Append(search_query', search_query[Len(search_query)])
           /\ search_query = <<>> => search_query' = <<>>
           /\ C2_FilterExact' /\ selected' = 0
      /\ Search_Esc =>
           /\ mode' = "Normal" /\ search_query' = <<>>
           /\ filtered_notes' = TagPermitted
      /\ Search_Enter =>
           /\ mode' = "Normal"
           /\ UNCHANGED <<search_query, filtered_notes>>
    ]_vars

\* C31 witness: a query has been typed in Search mode under an active tag
\* filter, the list is narrower than the tag filter alone permits and the
\* cursor is at 0
C31_Witness ==
  /\ phase = "tui" /\ mode = "Search"
  /\ search_query # <<>>
  /\ active_tag_filters # <<>>
  /\ Len(filtered_notes) < Len(TagPermitted)
  /\ selected = 0

\* the status message m reports a validation error, a storage, editor or
\* summarizer error, or a confirmation (and is not the indicator of the active
\* tag filters)
IsReport(m) == m \notin {None, "FilteredBy"}

\* C33: status messages are transient: whenever a handler sets a status message
\* it sets an expiry for it, so a displayed message always has a pending expiry
\* at which the render loop clears it without a further key press; and the
\* render loop clears a message only at an expiry that was set with it, not at
\* one left pending from an earlier message.
C33_StatusTransient ==
  /\ [](IsReport(status_message) => status_expires # Nothing)
  /\ [][ (IsReport(status_message') /\ status_message' # status_message)
           => (status_expires' # Nothing /\ Unwrap(status_expires') = StatusSeconds) ]_vars
  /\ [][ (RunLoopClearExpired /\ IsReport(status_message))
           => status_message = "NoSummaryAvailable" ]_vars

\* C32: while the focus is Preview and the mode is Normal, the navigation keys
\* j/k/Up/Down go to the preview pane and not to the note list: they change
\* only preview_scroll, by one step and never below 0, and leave the selection
\* cursor, the filtered list, the active filters, the mode, the focus and the
\* summary state unchanged.
C32_PreviewIntercepts ==
  [][ /\ (KeyPress /\ InPreview) => ~(Normal_j \/ Normal_k)
      /\ (Preview_j \/ Preview_k) =>
           /\ InPreview
           /\ preview_scroll' \in {preview_scroll + 1, preview_scroll - 1, 0}
           /\ preview_scroll' >= 0
           /\ UNCHANGED <<selected, filtered_notes, active_tag_filters, mode, focus,
                          summaryVars, preview_tab>>
    ]_vars

\* C32 witness: the preview pane has the focus and has been scrolled down, while
\* the note list holds two notes between which j and k would move the cursor
C32_Witness ==
  /\ phase = "tui" /\ InPreview
  /\ preview_scroll > 0
  /\ Len(filtered_notes) >= 2

\* C34: for a fenced code block whose content has n lines the renderer emits
\* exactly n indented lines, one per content line, each the fixed indentation
\* followed by the line, then exactly one blank separator line, and no other
\* line.
C34_CodeBlockLines ==
  \A c \in CodeBlocks :
    (call.fn = "render_markdown" /\ call.input = CodeDoc(c)) =>
      LET r == call.result
          n == Len(c)
      IN /\ Len(r) = n + 1
         /\ \A k \in 1..n :
              /\ Len(r[k]) = 1
              /\ r[k][1].content = <<" ", " ", " ", " ">> \o c[k]
         /\ r[n + 1] = <<>>

\* the line has a span that shows the bullet glyph
HasBullet(line) ==
  \E k \in 1..Len(line) : \E j \in 1..Len(line[k].content) : line[k].content[j] = "bullet"

\* C35: the line of a list item that is not a task begins with the bullet glyph
\* as its first span, whichever inline construct the item starts with (plain
\* text, inline code, emphasis, link); the line of a task-list item begins with
\* the checked or unchecked glyph and contains no bullet glyph.
C35_ListItemPrefix ==
  \A i \in Items :
    (call.fn = "render_markdown" /\ call.input = ItemDoc(i)) =>
      LET line == call.result[1] IN
      /\ line # <<>>
      /\ IF i = "checked" THEN line[1].content = <<" ", " ", "ballot_checked", " ">>
         ELSE IF i = "unchecked" THEN line[1].content = <<" ", " ", "ballot_box", " ">>
         ELSE line[1].content = <<" ", " ", "bullet", " ">>
      /\ i \in {"checked", "unchecked"} => ~HasBullet(line)

\* C36: an update notice is emitted at most once per latest version: once the
\* cache records that a version has been notified, no later call of
\* check_for_updates_inner returns that version again, whether the cache is
\* still fresh or has expired and the same version is fetched again.
C36_NoticeOncePerVersion ==
  [][ (/\ CheckForUpdates
       /\ version_cache # Nothing
       /\ Unwrap(version_cache).notified_version # Nothing)
        => call'.result # Unwrap(version_cache).notified_version ]_vars

\* the key Esc is dispatched, in whichever mode and focus
EscKey ==
  \/ Normal_Esc \/ Preview_Esc \/ TagBrowse_Esc \/ Search_Esc \/ Command_Esc
  \/ AddNoteName_Esc \/ AddNoteTags_Esc \/ EditTags_Esc

\* C37: the mode and the focus stay consistent: the mode is TagBrowse exactly
\* when the focus is TagPanel; the focus Preview implies the mode Normal; in
\* Search, Command, AddNoteName, AddNoteTags, EditTagsAdd and EditTagsRemove the
\* focus is NoteList; so one Esc from any state leads to the mode Normal with
\* the focus NoteList.
C37_ModeFocusConsistent ==
  /\ [](/\ mode = "TagBrowse" <=> focus = "TagPanel"
        /\ focus = "Preview" => mode = "Normal"
        /\ mode \in {"Search", "Command", "AddNoteName", "AddNoteTags",
                     "EditTagsAdd", "EditTagsRemove"} => focus = "NoteList")
  /\ [][EscKey => (mode' = "Normal" /\ focus' = "NoteList")]_vars

\* C37 witness: Command mode has been entered from the preview pane, with the
\* tag panel visited on the way, and the focus is back on the note list
C37_Witness ==
  /\ phase = "tui"
  /\ mode = "Command"
  /\ focus = "NoteList"
  /\ preview_scroll > 0

\* C38: the summary-display flags are nested: summary_force_regen implies
\* summary_stale, summary_stale implies that summary_content is present, and
\* summary_content present implies showing_summary; the force flag is never
\* armed while no stale summary is displayed.
C38_SummaryFlagsNested ==
  /\ summary_force_regen => summary_stale
  /\ summary_stale => summary_content # None
  /\ summary_content # None => showing_summary

\* C38 witness: the force flag is armed over a stale summary that is displayed
C38_Witness ==
  /\ phase = "tui"
  /\ summary_force_regen /\ summary_stale
  /\ summary_content # None /\ showing_summary

\* C39: the Summary tab of the preview is active only while a summary is
\* loaded: preview_tab = Summary implies that summary_content is present, so
\* leaving the preview pane, moving the selection or editing the note never
\* leaves the Summary tab selected with no summary content.
C39_SummaryTabHasContent ==
  preview_tab = "Summary" => summary_content # None

\* C40: after a successful open-and-save edit or tag edit of the selected note,
\* with the snapshot refreshed in recency order, the selection cursor still
\* designates the note (the same id) that was edited.
C40_CursorFollowsEditedNote ==
  [][ (Command_o_Changed \/ EditTags_Enter_Apply)
        => SelectedId(notes', filtered_notes', selected')
             = SelectedId(notes, filtered_notes, selected) ]_vars

====
